---------------------------- MODULE Spec2Model ----------------------------
(***************************************************************************)
(* A model of SwanEditor (SwanEditor.js): the node/edge store, the         *)
(* connection cache, the dirty-node batch scheduler and the pointer        *)
(* interaction handlers.                                                   *)
(*                                                                         *)
(* Ids: the editor names nodes `node-${k}` and edges `edge-${k}`; the      *)
(* model keeps the counter value k (a positive integer) as the id, the     *)
(* formatting being injective and never parsed back.  0 stands for "no     *)
(* id" (null / undefined).                                                 *)
(***************************************************************************)
EXTENDS Integers, Sequences, FiniteSets, TLC

\* ------------------------------------------------------------------ bounds
\* createNode is offered while nodeIdCounter <= MaxNodeId
MaxNodeId == 2
\* createEdge is offered while edgeIdCounter <= MaxEdgeId
MaxEdgeId == 2
\* the per-node count of dirty marks since the last flush saturates here
MaxMarks == 2
\* preview paths in the canvas at one time
MaxPreviews == 2

\* ------------------------------------------------------- program constants
\* the default of options.gridSize (1 = snapping disabled)
DefaultGridSize == 1

\* options.nodeDefaults
nodeDefaults == [width |-> 200, resizable |-> FALSE, deletable |-> TRUE]
\* options.edgeStyle
edgeStyle == [color |-> "#6b7280", width |-> 2, dashed |-> FALSE, animated |-> FALSE]

\* ----------------------------------------------------------------- helpers
\* { ...a, ...b }: the fields of b laid over those of a
Spread(a, b) ==
  [k \in (DOMAIN a) \cup (DOMAIN b) |-> IF k \in DOMAIN b THEN b[k] ELSE a[k]]

\* an optional argument: absent (undefined) or present with a value
Absent == [def |-> FALSE, v |-> 0]
Some(v) == [def |-> TRUE, v |-> v]

\* `a || d` on an optional number: undefined and 0 are falsy
OrElse(a, d) == IF a.def /\ a.v # 0 THEN a.v ELSE d

Max(a, b) == IF a >= b THEN a ELSE b

SeqToSet(s) == {s[i] : i \in 1..Len(s)}

\* Set.prototype.add on an insertion-ordered set
SetAdd(s, x) == IF x \in SeqToSet(s) THEN s ELSE Append(s, x)

\* Set.prototype.delete / Map.prototype.delete on an insertion-ordered collection
SetDelete(s, x) == SelectSeq(s, LAMBDA y : y # x)

\* Map.prototype.has / get / delete on the node and edge maps (records keyed by id)
Has(m, id) == \E i \in 1..Len(m) : m[i].id = id
Get(m, id) == m[CHOOSE i \in 1..Len(m) : m[i].id = id]
MapDelete(m, id) == SelectSeq(m, LAMBDA r : r.id # id)
Keys(m) == [i \in 1..Len(m) |-> m[i].id]
KeySet(m) == {m[i].id : i \in 1..Len(m)}

\* Map.prototype.set: overwrite in place if the key exists, else append
MapSet(m, r) ==
  IF Has(m, r.id) THEN [i \in 1..Len(m) |-> IF m[i].id = r.id THEN r ELSE m[i]]
  ELSE Append(m, r)

\* ------------------------------------------------------------------- state
VARIABLES
  nodes,            \* this.nodes: Map id -> node, in insertion order
  edges,            \* this.edges: Map id -> edge, in insertion order
  selectedNodes,    \* this.selectedNodes
  dragState,        \* this.dragState
  connectionState,  \* this.connectionState
  connectionCache,  \* this.connectionCache: nodeId -> {inputs, outputs}
  dirtyNodes,       \* this.dirtyNodes
  nodeIdCounter,    \* this.nodeIdCounter
  edgeIdCounter,    \* this.edgeIdCounter
  nodeTypes,        \* this.nodeTypes: the registered type tags
  batchUpdateTimer, \* this.batchUpdateTimer (0 = undefined / null)
  timers,           \* the timeouts pending in the event loop
  rafId,            \* this.rafId (0 = null)
  rafs,             \* the animation-frame callbacks pending in the event loop
  updateQueue,      \* this.updateQueue
  clipboard,        \* this.clipboard (has = FALSE: undefined)
  gridSize,         \* this.options.gridSize, fixed at construction
  previewPaths,     \* the path.preview elements inside this.svg: how many
  connectingPorts,  \* the rendered ports that carry the class 'connecting'
  exported,         \* the host's document (saved by getWorkflowData, or handed to a load)
  objects,          \* the heap: the nested objects that data values refer to
  marks,            \* history: dirty marks per node id since the last flush ran
  issued,           \* history: node ids returned by createNode so far
  sinceReset,       \* history: node ids returned since the counters were last reset
  createdInDrag,    \* history: node ids returned since the open drag session began
  lastCall          \* history: the last operation, its arguments and outcome

vars == <<nodes, edges, selectedNodes, dragState, connectionState,
          connectionCache, dirtyNodes, nodeIdCounter, edgeIdCounter, nodeTypes,
          batchUpdateTimer, timers, rafId, rafs, updateQueue, clipboard,
          previewPaths, connectingPorts, gridSize,
          exported, objects, marks, issued, sinceReset, createdInDrag,
          lastCall>>

\* The editor object as one value, so that a handler that calls other handlers
\* is the composition of their effects.  emitted / thrown / ret are the
\* observable outcome of the call in progress.
This ==
  [nodes |-> nodes, edges |-> edges, selectedNodes |-> selectedNodes,
   connectionCache |-> connectionCache, dirtyNodes |-> dirtyNodes,
   dragState |-> dragState, connectionState |-> connectionState,
   nodeIdCounter |-> nodeIdCounter, edgeIdCounter |-> edgeIdCounter,
   nodeTypes |-> nodeTypes, batchUpdateTimer |-> batchUpdateTimer,
   timers |-> timers, rafId |-> rafId, rafs |-> rafs,
   updateQueue |-> updateQueue, clipboard |-> clipboard,
   previewPaths |-> previewPaths, connectingPorts |-> connectingPorts,
   marks |-> marks, issued |-> issued,
   sinceReset |-> sinceReset, createdInDrag |-> createdInDrag,
   emitted |-> <<>>, thrown |-> FALSE, ret |-> 0]

\* a hook or callback invocation: its name and the id of the entity passed
Note(name, id) == [name |-> name, id |-> id]
Emit(t, name, id) == [t EXCEPT !.emitted = Append(@, Note(name, id))]

\* a TypeError raised inside a handler: the call ends here
Throw(t) == [t EXCEPT !.thrown = TRUE]

\* the element of a node leaves the canvas (node.element.remove(), also of the
\* old element after a re-render): its ports leave with it, and with them
\* the class 'connecting'
ElementRemoved(t, nodeId) ==
  [t EXCEPT !.connectingPorts = {port \in @ : port[1] # nodeId}]


\* ------------------------------------------------------- event-loop timers
\* setTimeout / requestAnimationFrame hand out an id no pending callback has
FreshId(pending) == CHOOSE i \in 1..(Cardinality(pending) + 1) : i \notin pending

\* clearTimeout(id): the callback with that id no longer fires
ClearTimeoutKeeps(pending, id) == pending
ClearTimeout(pending, id) == pending \ {id}

\* scheduleBatchUpdate(): cancel the pending flush, arm a new one
scheduleBatchUpdate(t) ==
  LET cleared == IF t.batchUpdateTimer # 0
                 THEN ClearTimeout(t.timers, t.batchUpdateTimer)
                 ELSE t.timers
      id == FreshId(cleared)
  IN [t EXCEPT !.batchUpdateTimer = id, !.timers = cleared \cup {id}]

\* a scheduleEdgeUpdate that queues the node and requests no frame
scheduleEdgeUpdateUnrequested(t, nodeId) == [t EXCEPT !.updateQueue = @ \cup {nodeId}]

\* scheduleEdgeUpdate(nodeId): queue the node, request a frame if none is requested
scheduleEdgeUpdate(t, nodeId) ==
  LET q == [t EXCEPT !.updateQueue = @ \cup {nodeId}]
      id == FreshId(q.rafs)
  IN IF q.rafId = 0 THEN [q EXCEPT !.rafId = id, !.rafs = @ \cup {id}] ELSE q

\* processUpdateQueue(): re-lay the edges of the queued nodes (DOM only)
processUpdateQueue(t) == [t EXCEPT !.updateQueue = {}, !.rafId = 0]

\* -------------------------------------------------------- connection cache
EmptyEntry == [inputs |-> <<>>, outputs |-> <<>>]

CacheHas(c, id) == id \in DOMAIN c
CachePut(c, id, v) == [k \in (DOMAIN c) \cup {id} |-> IF k = id THEN v ELSE c[k]]
CacheDelete(c, id) == [k \in (DOMAIN c) \ {id} |-> c[k]]

\* initNodeCache(nodeId)
initNodeCache(t, nodeId) ==
  IF CacheHas(t.connectionCache, nodeId) THEN t
  ELSE [t EXCEPT !.connectionCache = CachePut(@, nodeId, EmptyEntry)]

\* cleanupNodeCache(nodeId)
cleanupNodeCache(t, nodeId) ==
  [t EXCEPT !.connectionCache = CacheDelete(@, nodeId),
            !.dirtyNodes = @ \ {nodeId}]

\* this.dirtyNodes.add(id), with the history count of marks
MarkDirty(t, id) ==
  [t EXCEPT !.dirtyNodes = @ \cup {id},
            !.marks = CachePut(@, id,
                        IF id \in DOMAIN @
                        THEN (IF @[id] < MaxMarks THEN @[id] + 1 ELSE @[id])
                        ELSE 1)]

\* updateCacheOnEdgeCreate(edge)
updateCacheOnEdgeCreate(t, edge) ==
  LET t1 == initNodeCache(initNodeCache(t, edge.source), edge.target)
      t2 == [t1 EXCEPT !.connectionCache[edge.source].outputs = SetAdd(@, edge.id)]
      t3 == [t2 EXCEPT !.connectionCache[edge.target].inputs = SetAdd(@, edge.id)]
  IN scheduleBatchUpdate(MarkDirty(MarkDirty(t3, edge.source), edge.target))

\* updateCacheOnEdgeDelete(edge)
updateCacheOnEdgeDelete(t, edge) ==
  LET t1 == IF CacheHas(t.connectionCache, edge.source)
            THEN [t EXCEPT !.connectionCache[edge.source].outputs = SetDelete(@, edge.id)]
            ELSE t
      t2 == IF CacheHas(t1.connectionCache, edge.target)
            THEN [t1 EXCEPT !.connectionCache[edge.target].inputs = SetDelete(@, edge.id)]
            ELSE t1
  IN scheduleBatchUpdate(MarkDirty(MarkDirty(t2, edge.source), edge.target))

\* the summaries getConnectionDataCached builds for one direction: for each
\* cached edge id whose edge and opposite endpoint exist, (endpoint id, edge id)
RECURSIVE Summaries(_, _, _)
Summaries(t, ids, side) ==
  IF ids = <<>> THEN <<>>
  ELSE LET rest == Summaries(t, Tail(ids), side)
           eid == Head(ids)
       IN IF Has(t.edges, eid)
          THEN LET other == IF side = "inputs" THEN Get(t.edges, eid).source
                            ELSE Get(t.edges, eid).target
               IN IF Has(t.nodes, other)
                  THEN <<[id |-> other, edgeId |-> eid]>> \o rest
                  ELSE rest
          ELSE rest

\* getConnectionDataCached(nodeId)
getConnectionDataCached(t, nodeId) ==
  IF ~CacheHas(t.connectionCache, nodeId)
  THEN [inputs |-> <<>>, outputs |-> <<>>]
  ELSE [inputs |-> Summaries(t, t.connectionCache[nodeId].inputs, "inputs"),
        outputs |-> Summaries(t, t.connectionCache[nodeId].outputs, "outputs")]

\* the index validateCache rebuilds from the node and edge maps
RECURSIVE RebuildFrom(_, _)
RebuildFrom(c, es) ==
  IF es = <<>> THEN c
  ELSE LET e == Head(es)
           c1 == IF e.source \in DOMAIN c /\ e.target \in DOMAIN c
                 THEN LET a == [c EXCEPT ![e.source].outputs = SetAdd(@, e.id)]
                      IN [a EXCEPT ![e.target].inputs = SetAdd(@, e.id)]
                 ELSE c
       IN RebuildFrom(c1, Tail(es))

NewCache(t) == RebuildFrom([id \in KeySet(t.nodes) |-> EmptyEntry], t.edges)

\* the number of nodes validateCache counts as issues
Issues(t) ==
  LET new == NewCache(t)
  IN Cardinality({id \in DOMAIN new :
       \/ ~CacheHas(t.connectionCache, id)
       \/ Len(new[id].inputs) # Len(t.connectionCache[id].inputs)
       \/ Len(new[id].outputs) # Len(t.connectionCache[id].outputs)})

\* validateCache()
validateCache(t) ==
  LET n == Issues(t)
      t1 == IF n > 0 THEN [t EXCEPT !.connectionCache = NewCache(t)] ELSE t
  IN [t1 EXCEPT !.ret = n]

\* --------------------------------------------------------------- the store
\* this.nodeTypes.get(type): is the tag registered
Registered(t, type) == type \in DOMAIN t.nodeTypes

\* `counter++`: the value the counter holds afterwards
KeepCounter(c) == c
NextCounter(c) == c + 1

\* createNode(type, position, data); rx, ry are what Math.random() yields
\* for the default position
createNode(t, type, position, data, rx, ry) ==
  LET id == t.nodeIdCounter
      node == [id |-> id, type |-> type,
               x |-> OrElse(position.x, rx), y |-> OrElse(position.y, ry),
               data |-> Spread(nodeDefaults, data),
               conn |-> [has |-> FALSE, inputs |-> <<>>, outputs |-> <<>>]]
      t1 == [t EXCEPT !.nodeIdCounter = NextCounter(@),
                      !.nodes = MapSet(@, node),
                      !.issued = @ \cup {id},
                      !.sinceReset = @ \cup {id},
                      !.createdInDrag = IF t.dragState.active THEN @ \cup {id}
                                        ELSE @]
      t2 == initNodeCache(t1, id)
  IN [Emit(Emit(t2, "onCreate", id), "onNodeCreate", id) EXCEPT !.ret = id]

\* the endpoint validation of createEdge
BothEndpointsMissing(t, sourceId, targetId) ==
  ~Has(t.nodes, sourceId) /\ ~Has(t.nodes, targetId)
EndpointMissing(t, sourceId, targetId) ==
  ~Has(t.nodes, sourceId) \/ ~Has(t.nodes, targetId)

\* the tail of createEdge: onConnect of the target's type, then onEdgeCreate
connectTarget(t, targetId, id) ==
  \* targetType.onConnect of an undefined type entry
  IF ~Registered(t, Get(t.nodes, targetId).type) THEN Throw(t)
  ELSE [Emit(Emit(t, "onConnect", targetId), "onEdgeCreate", id) EXCEPT !.ret = id]

\* createEdge once the edge is stored and cached: the lifecycle hooks
connectSource(t, sourceId, targetId, id) ==
  \* sourceNode.type / targetNode.type of an undefined node
  IF ~Has(t.nodes, sourceId) \/ ~Has(t.nodes, targetId) THEN Throw(t)
  \* sourceType.onConnect of an undefined type entry
  ELSE IF ~Registered(t, Get(t.nodes, sourceId).type) THEN Throw(t)
  ELSE connectTarget(Emit(t, "onConnect", sourceId), targetId, id)

\* this.edges.set(id, edge) and updateCacheOnEdgeCreate(edge)
storeEdge(t, edge) ==
  updateCacheOnEdgeCreate(
    [t EXCEPT !.edgeIdCounter = @ + 1, !.edges = MapSet(@, edge)], edge)

\* createEdge(sourceId, targetId, options): style is options.style (<<>> when
\* not given), data is options.data || {}
createEdge(t, sourceId, targetId, style, data) ==
  IF EndpointMissing(t, sourceId, targetId)
  THEN [t EXCEPT !.ret = 0]
  ELSE IF \E i \in 1..Len(t.edges) :
            t.edges[i].source = sourceId /\ t.edges[i].target = targetId
  THEN LET i == CHOOSE j \in 1..Len(t.edges) :
                  /\ t.edges[j].source = sourceId /\ t.edges[j].target = targetId
                  /\ \A k \in 1..(j - 1) :
                       ~(t.edges[k].source = sourceId /\ t.edges[k].target = targetId)
       IN [t EXCEPT !.ret = t.edges[i].id]
  ELSE connectSource(
         storeEdge(t, [id |-> t.edgeIdCounter, source |-> sourceId,
                       target |-> targetId, style |-> Spread(edgeStyle, style),
                       data |-> data]),
         sourceId, targetId, t.edgeIdCounter)

\* the tail of deleteEdge: this.edges.delete(edgeId) and onEdgeDelete
removeEdge(t, edgeId) ==
  Emit([t EXCEPT !.edges = MapDelete(@, edgeId)], "onEdgeDelete", edgeId)

\* onDisconnect of the target's type, then the removal
disconnectTarget(t, edge) ==
  IF ~Registered(t, Get(t.nodes, edge.target).type) THEN Throw(t)
  ELSE removeEdge(Emit(t, "onDisconnect", edge.target), edge.id)

\* deleteEdge once the cache is updated: the lifecycle hooks, then the removal
disconnectSource(t, edge) ==
  IF ~(Has(t.nodes, edge.source) /\ Has(t.nodes, edge.target))
  THEN removeEdge(t, edge.id)
  ELSE IF ~Registered(t, Get(t.nodes, edge.source).type) THEN Throw(t)
  ELSE disconnectTarget(Emit(t, "onDisconnect", edge.source), edge)

\* deleteEdge(edgeId)
deleteEdge(t, edgeId) ==
  IF ~Has(t.edges, edgeId) THEN t
  ELSE disconnectSource(updateCacheOnEdgeDelete(t, Get(t.edges, edgeId)),
                        Get(t.edges, edgeId))

\* ids.forEach(id => this.deleteEdge(id)), ended by the first call that throws
RECURSIVE deleteEdges(_, _)
deleteEdges(t, ids) ==
  IF ids = <<>> \/ t.thrown THEN t
  ELSE deleteEdges(deleteEdge(t, Head(ids)), Tail(ids))

\* a removal that leaves the node selected
removeNodeKeepsSelected(t, nodeId) ==
  IF t.thrown THEN t
  ELSE Emit(Emit([cleanupNodeCache(ElementRemoved(t, nodeId), nodeId)
                    EXCEPT !.nodes = MapDelete(@, nodeId)],
                 "onDelete", nodeId), "onNodeDelete", nodeId)

\* deleteNode once its edges are deleted: selection, cache, store, callbacks
removeNode(t, nodeId) ==
  IF t.thrown THEN t
  ELSE LET t2 == [ElementRemoved(t, nodeId) EXCEPT !.selectedNodes = @ \ {nodeId}]
           t3 == cleanupNodeCache(t2, nodeId)
           t4 == [t3 EXCEPT !.nodes = MapDelete(@, nodeId)]
       IN Emit(Emit(t4, "onDelete", nodeId), "onNodeDelete", nodeId)

\* deleteNode(nodeId)
deleteNode(t, nodeId) ==
  IF ~Has(t.nodes, nodeId) THEN t
  ELSE removeNode(
         deleteEdges(t, Keys(SelectSeq(t.edges,
                       LAMBDA e : e.source = nodeId \/ e.target = nodeId))),
         nodeId)

\* `if (nodeType && nodeType.onConnectionChange) nodeType.onConnectionChange(..)`
notifyConnectionChange(t, nodeId) ==
  IF /\ Registered(t, Get(t.nodes, nodeId).type)
     /\ "onConnectionChange" \in DOMAIN t.nodeTypes[Get(t.nodes, nodeId).type]
  THEN Emit(t, "onConnectionChange", nodeId)
  ELSE t

\* processDirtyNodes(): one recomputation per pending id that names a live node
RECURSIVE processDirty(_, _)
processDirty(t, ids) ==
  IF ids = {} THEN t
  ELSE LET nodeId == CHOOSE i \in ids : \A j \in ids : i <= j
           t1 == IF Has(t.nodes, nodeId)
                 THEN LET node == Get(t.nodes, nodeId)
                          cd == getConnectionDataCached(t, nodeId)
                          n1 == [node EXCEPT !.conn = [has |-> TRUE,
                                                       inputs |-> cd.inputs,
                                                       outputs |-> cd.outputs]]
                          u == [ElementRemoved(t, nodeId) EXCEPT
                                  !.nodes = MapSet(@, n1)]
                      IN scheduleEdgeUpdate(
                           notifyConnectionChange(Emit(u, "recompute", nodeId), nodeId),
                           nodeId)
                 ELSE t
       IN processDirty(t1, ids \ {nodeId})

\* processDirtyNodes() without the `if (node)` test: node.element of a missing
\* node is a TypeError
processDirtyNodesUnguarded(t) ==
  IF t.dirtyNodes = {} THEN t
  ELSE IF t.dirtyNodes \ KeySet(t.nodes) # {} THEN Throw(t)
  ELSE [processDirty(t, t.dirtyNodes) EXCEPT !.dirtyNodes = {},
                                             !.batchUpdateTimer = 0]

processDirtyNodes(t) ==
  IF t.dirtyNodes = {} THEN t
  ELSE [processDirty(t, t.dirtyNodes) EXCEPT !.dirtyNodes = {},
                                             !.batchUpdateTimer = 0]

\* ids.forEach(id => this.deleteNode(id)), ended by the first call that throws
RECURSIVE deleteNodes(_, _)
deleteNodes(t, ids) ==
  IF ids = <<>> \/ t.thrown THEN t
  ELSE deleteNodes(deleteNode(t, Head(ids)), Tail(ids))

\* clearSelection()
clearSelection(t) == [t EXCEPT !.selectedNodes = {}]

\* clear() once the nodes are deleted: the selection and the id counters
resetCounters(t) ==
  IF t.thrown THEN t
  ELSE clearSelection([t EXCEPT !.nodeIdCounter = 1, !.edgeIdCounter = 1,
                                !.sinceReset = {}])

\* a clear() that resets the counters and deletes nothing
clearKeepsNodes(t) == resetCounters(t)

\* clear()
clear(t) == resetCounters(deleteNodes(t, Keys(t.nodes)))

\* --------------------------------------------------------- export / import
\* A parsed JSON document.  isNull: the value is null.  nodes / edges: the
\* field is absent, a list of entries, or some other truthy value (a number).
Field(kind, items) == [kind |-> kind, items |-> items]
Document(ns, es) == [isNull |-> FALSE, nodes |-> ns, edges |-> es]
NullDocument == [isNull |-> TRUE, nodes |-> Field("absent", <<>>),
                 edges |-> Field("absent", <<>>)]

\* an entry of the nodes list: null, or {id, type, position: {x, y}, data}
NodeEntry(id, type, x, y, data) ==
  [isNull |-> FALSE, id |-> id, type |-> type, x |-> x, y |-> y, data |-> data]
NullEntry == [isNull |-> TRUE, id |-> 0, type |-> "default", x |-> 0, y |-> 0,
              data |-> <<>>]

\* getWorkflowData()
getWorkflowData(t) ==
  Document(
    Field("list", [i \in 1..Len(t.nodes) |->
      NodeEntry(t.nodes[i].id, t.nodes[i].type, t.nodes[i].x, t.nodes[i].y,
                t.nodes[i].data)]),
    Field("list", [i \in 1..Len(t.edges) |->
      [id |-> t.edges[i].id, source |-> t.edges[i].source,
       target |-> t.edges[i].target, style |-> t.edges[i].style,
       data |-> t.edges[i].data]]))

\* idMap.get(id) (0 = undefined); idMap is a sequence of <<old, new>> pairs,
\* a later set of the same key replacing the earlier one
IdMapGet(idMap, old) ==
  IF \E i \in 1..Len(idMap) : idMap[i][1] = old
  THEN idMap[CHOOSE i \in 1..Len(idMap) :
               idMap[i][1] = old /\ \A j \in (i + 1)..Len(idMap) : idMap[j][1] # old][2]
  ELSE 0

\* data.nodes.forEach(...) of loadWorkflowData; rnd[i] is what Math.random()
\* yields inside the i-th createNode.  Returns the editor and the id map.
RECURSIVE loadNodes(_, _, _, _)

\* idMap.set(nodeData.id, newId), then the entries that follow
mapNode(t, e, items, rnd, idMap) ==
  loadNodes(t, items, rnd, Append(idMap, <<e.id, t.ret>>))

loadNodes(t, items, rnd, idMap) ==
  IF items = <<>> \/ t.thrown THEN [t |-> t, idMap |-> idMap]
  ELSE IF Head(items).isNull THEN [t |-> Throw(t), idMap |-> idMap]
  ELSE mapNode(createNode(t, Head(items).type,
                          [x |-> Some(Head(items).x), y |-> Some(Head(items).y)],
                          Head(items).data, Head(rnd).x, Head(rnd).y),
               Head(items), Tail(items), Tail(rnd), idMap)

\* data.edges.forEach(...) of loadWorkflowData
RECURSIVE loadEdges(_, _, _)
loadEdges(t, items, idMap) ==
  IF items = <<>> \/ t.thrown THEN t
  ELSE LET e == Head(items)
           sourceId == IdMapGet(idMap, e.source)
           targetId == IdMapGet(idMap, e.target)
           t1 == IF sourceId # 0 /\ targetId # 0
                 THEN createEdge(t, sourceId, targetId, e.style, e.data)
                 ELSE t
       IN loadEdges(t1, Tail(items), idMap)

\* loadWorkflowData once the nodes are created: if (data.edges) ...
loadDataEdges(r, data) ==
  IF r.t.thrown THEN r.t
  ELSE IF data.edges.kind = "absent" THEN r.t
  ELSE IF data.edges.kind = "list"
       THEN [loadEdges(r.t, data.edges.items, r.idMap) EXCEPT !.ret = 0]
       ELSE Throw(r.t)

\* loadWorkflowData once the editor is cleared: if (data.nodes) ...
loadDataNodes(t, data, rnd) ==
  IF t.thrown THEN [t |-> t, idMap |-> <<>>]
  ELSE IF data.isNull THEN [t |-> Throw(t), idMap |-> <<>>]
  ELSE IF data.nodes.kind = "absent" THEN [t |-> t, idMap |-> <<>>]
  ELSE IF data.nodes.kind = "list" THEN loadNodes(t, data.nodes.items, rnd, <<>>)
  ELSE [t |-> Throw(t), idMap |-> <<>>]

\* loadWorkflowData(data)
loadWorkflowData(t, data, rnd) ==
  loadDataEdges(loadDataNodes(clear(t), data, rnd), data)

\* A JSON text: one that JSON.parse rejects, or one that parses to a document.
\* JSON.stringify / JSON.parse keep the numbers, strings and booleans the
\* model's documents are made of, so a text is held as the document it parses to.
Unparsable == [parses |-> FALSE, value |-> NullDocument]
Json(doc) == [parses |-> TRUE, value |-> doc]

\* the try / catch of importJSON: true, or false when the load threw
caught(t) ==
  IF t.thrown THEN [t EXCEPT !.thrown = FALSE, !.ret = 0]
  ELSE [t EXCEPT !.ret = 1]

\* importJSON(json): 1 = true, 0 = false
importJSON(t, json, rnd) ==
  IF ~json.parses THEN [t EXCEPT !.ret = 0]
  ELSE caught(loadWorkflowData(t, json.value, rnd))

\* ------------------------------------------------------ pointer handlers
\* this.dragState / this.connectionState: null, or the session record
NoDrag == [active |-> FALSE, nodes |-> {}, primary |-> 0, offsetX |-> 0,
           offsetY |-> 0, startPositions |-> <<>>]
NoConnection == [active |-> FALSE, sourceNodeId |-> 0, sourcePortType |-> "none"]

\* What a pointer event hits: a port of a node, the body of a node (an embedded
\* control or not, the node-handle or not), the canvas, or anything else.
PortTarget(nodeId, portType) ==
  [kind |-> "port", nodeId |-> nodeId, portType |-> portType,
   interactive |-> FALSE, handle |-> FALSE]
BodyTarget(nodeId, interactive, handle) ==
  [kind |-> "node", nodeId |-> nodeId, portType |-> "none",
   interactive |-> interactive, handle |-> handle]
CanvasTarget ==
  [kind |-> "canvas", nodeId |-> 0, portType |-> "none",
   interactive |-> FALSE, handle |-> FALSE]
OtherTarget ==
  [kind |-> "other", nodeId |-> 0, portType |-> "none",
   interactive |-> FALSE, handle |-> FALSE]

\* a mouse event: the element it hits, the pointer position, the ctrl/meta key
MouseEvent(target, clientX, clientY, ctrl) ==
  [target |-> target, clientX |-> clientX, clientY |-> clientY, ctrlKey |-> ctrl]

\* the ports renderNode gives a node: those of its type, or of 'default'
PortsOf(t, node) ==
  IF Registered(t, node.type) THEN t.nodeTypes[node.type].ports
  ELSE t.nodeTypes["default"].ports

\* nodeEl.getBoundingClientRect() relative to the canvas at scroll 0: the
\* element sits at style.left / style.top = the node's position
RectLeft(node) == node.x
RectTop(node) == node.y

\* selectNode that clears the selection whatever `multi` says
selectNodeAlone(t, nodeId, multi) ==
  IF ~Has(t.nodes, nodeId) THEN clearSelection(t)
  ELSE Emit([clearSelection(t) EXCEPT !.selectedNodes = {nodeId}],
            "onNodeSelect", nodeId)

\* selectNode(nodeId, multi)
selectNode(t, nodeId, multi) ==
  LET t1 == IF multi THEN t ELSE clearSelection(t)
  IN IF ~Has(t1.nodes, nodeId) THEN t1
     ELSE Emit([t1 EXCEPT !.selectedNodes = @ \cup {nodeId}], "onNodeSelect", nodeId)

\* startDrag(e, nodeEl)
startDrag(t, e, nodeId) ==
  IF ~Has(t.nodes, nodeId) THEN t
  ELSE LET node == Get(t.nodes, nodeId)
           members == IF nodeId \in t.selectedNodes THEN t.selectedNodes ELSE {nodeId}
           ds == [active |-> TRUE, nodes |-> members, primary |-> nodeId,
                  offsetX |-> e.clientX - RectLeft(node),
                  offsetY |-> e.clientY - RectTop(node),
                  startPositions |->
                    [id \in {m \in members : Has(t.nodes, m)} |->
                       [x |-> Get(t.nodes, id).x, y |-> Get(t.nodes, id).y]]]
           t1 == [t EXCEPT !.dragState = ds, !.createdInDrag = {}]
       IN IF nodeId \notin t1.selectedNodes THEN selectNode(t1, nodeId, e.ctrlKey)
          ELSE t1

\* startConnection(e, portEl)
startConnection(t, e) ==
  [t EXCEPT !.connectionState =
              [active |-> TRUE, sourceNodeId |-> e.target.nodeId,
               sourcePortType |-> e.target.portType],
            !.connectingPorts = @ \cup {<<e.target.nodeId, e.target.portType>>},
            !.previewPaths = @ + 1]

\* handleMouseDown(e)
handleMouseDown(t, e) ==
  IF e.target.kind = "port" THEN startConnection(t, e)
  ELSE IF e.target.kind = "node"
       THEN IF ~e.target.interactive \/ e.target.handle
            THEN startDrag(t, e, e.target.nodeId)
            ELSE t
  ELSE IF e.target.kind = "canvas" THEN clearSelection(t)
  ELSE t

\* a snapping that leaves the coordinate where it is
SnapNone(v, g) == v

\* Math.round(v / g) * g for integers v and g > 0
SnapTo(v, g) == ((2 * v + g) \div (2 * g)) * g

\* the grid snapping of updateDrag
Snap(v) == IF gridSize > 1 THEN SnapTo(v, gridSize) ELSE v

\* the forEach of updateDrag: move every live member
RECURSIVE dragMembers(_, _, _, _)
dragMembers(t, ids, deltaX, deltaY) ==
  IF ids = {} \/ t.thrown THEN t
  ELSE LET nodeId == CHOOSE i \in ids : \A j \in ids : i <= j
           t1 == IF ~Has(t.nodes, nodeId) THEN t
                 ELSE IF nodeId \notin DOMAIN t.dragState.startPositions THEN Throw(t)
                 ELSE LET startPos == t.dragState.startPositions[nodeId]
                          x == Max(0, Snap(startPos.x + deltaX))
                          y == Max(0, Snap(startPos.y + deltaY))
                          n1 == [Get(t.nodes, nodeId) EXCEPT !.x = x, !.y = y]
                      IN scheduleEdgeUpdate([t EXCEPT !.nodes = MapSet(@, n1)], nodeId)
       IN dragMembers(t1, ids \ {nodeId}, deltaX, deltaY)

\* updateDrag(e), with the canvas at the viewport origin and not scrolled
updateDrag(t, e) ==
  IF ~t.dragState.active THEN t
  ELSE LET ds == t.dragState
           deltaX == e.clientX - ds.offsetX - ds.startPositions[ds.primary].x
           deltaY == e.clientY - ds.offsetY - ds.startPositions[ds.primary].y
       IN dragMembers(t, ds.nodes, deltaX, deltaY)

\* handleMouseMove(e); updateConnectionPreview only redraws the preview path
handleMouseMove(t, e) == IF t.dragState.active THEN updateDrag(t, e) ELSE t

\* startPos.x !== node.position.x || startPos.y !== node.position.y
MovedAlways(startPos, node) == TRUE
Moved(startPos, node) == startPos.x # node.x \/ startPos.y # node.y

\* the second forEach of endDrag: onNodeMove for every member that moved
RECURSIVE notifyMoved(_, _)
notifyMoved(t, ids) ==
  IF ids = {} \/ t.thrown THEN t
  ELSE LET nodeId == CHOOSE i \in ids : \A j \in ids : i <= j
           t1 == IF ~Has(t.nodes, nodeId) THEN t
                 ELSE IF nodeId \notin DOMAIN t.dragState.startPositions THEN Throw(t)
                 ELSE LET startPos == t.dragState.startPositions[nodeId]
                          node == Get(t.nodes, nodeId)
                      IN IF Moved(startPos, node)
                         THEN Emit(t, "onNodeMove", nodeId)
                         ELSE t
       IN notifyMoved(t1, ids \ {nodeId})

\* an endDrag that leaves the session open
closeDragKeeps(t) == t

\* the tail of endDrag: this.dragState = null
closeDrag(t) ==
  IF t.thrown THEN t ELSE [t EXCEPT !.dragState = NoDrag, !.createdInDrag = {}]

\* endDrag()
endDrag(t) ==
  IF ~t.dragState.active THEN t
  ELSE closeDrag(notifyMoved(t, t.dragState.nodes))

\* validateConnection(sourceNodeId, sourcePortType, targetNodeId, targetPortType)
validateConnectionAnyRole(t, sourceNodeId, sourcePortType, targetNodeId, targetPortType) ==
  /\ sourceNodeId # targetNodeId
  /\ ~\E i \in 1..Len(t.edges) :
        \/ t.edges[i].source = sourceNodeId /\ t.edges[i].target = targetNodeId
        \/ t.edges[i].source = targetNodeId /\ t.edges[i].target = sourceNodeId
validateConnection(t, sourceNodeId, sourcePortType, targetNodeId, targetPortType) ==
  /\ sourceNodeId # targetNodeId
  /\ sourcePortType # targetPortType
  /\ ~\E i \in 1..Len(t.edges) :
        \/ t.edges[i].source = sourceNodeId /\ t.edges[i].target = targetNodeId
        \/ t.edges[i].source = targetNodeId /\ t.edges[i].target = sourceNodeId

\* the tail of endConnection: the preview path of this connection is removed,
\* every port loses the class 'connecting', this.connectionState = null
closeConnection(t) ==
  IF t.thrown THEN t
  ELSE [t EXCEPT !.previewPaths = IF @ > 0 THEN @ - 1 ELSE 0,
                 !.connectingPorts = {},
                 !.connectionState = NoConnection, !.ret = 0]

\* endConnection(e); e.target is document.elementFromPoint(e.clientX, e.clientY)
endConnection(t, e) ==
  IF ~t.connectionState.active THEN t
  ELSE closeConnection(
         IF /\ e.target.kind = "port"
            /\ validateConnection(t, t.connectionState.sourceNodeId,
                                  t.connectionState.sourcePortType,
                                  e.target.nodeId, e.target.portType)
         THEN IF t.connectionState.sourcePortType = "output"
              THEN createEdge(t, t.connectionState.sourceNodeId, e.target.nodeId,
                              <<>>, <<>>)
              ELSE createEdge(t, e.target.nodeId, t.connectionState.sourceNodeId,
                              <<>>, <<>>)
         ELSE t)

\* the second half of handleMouseUp: if (this.connectionState) endConnection(e)
upConnection(t, e) ==
  IF t.thrown THEN t
  ELSE IF t.connectionState.active THEN endConnection(t, e) ELSE t

\* handleMouseUp(e)
handleMouseUp(t, e) ==
  upConnection(IF t.dragState.active THEN endDrag(t) ELSE t, e)

\* ------------------------------------------------------------ construction
\* registerNodeType(type, config): the entry keeps the template, the ports,
\* the style and the five hooks onCreate .. onDisconnect, each defaulted
TypeConfig(ports) == [ports |-> ports]

\* registerNodeType(type, config): of the keys of config, the stored entry
\* takes template, ports, style, onCreate, onUpdate, onDelete, onConnect and
\* onDisconnect
registerNodeType(t, type, config) ==
  [t EXCEPT !.nodeTypes = CachePut(@, type, TypeConfig(config.ports))]

\* new SwanEditor(container, {gridSize: g})
Constructed(g) ==
  /\ gridSize = g
  /\ nodes = <<>>
  /\ edges = <<>>
  /\ selectedNodes = {}
  /\ dragState = NoDrag
  /\ connectionState = NoConnection
  /\ connectionCache = <<>>
  /\ dirtyNodes = {}
  /\ nodeIdCounter = 1
  /\ edgeIdCounter = 1
  /\ nodeTypes = [tag \in {"default"} |-> TypeConfig({"input", "output"})]
  /\ batchUpdateTimer = 0
  /\ timers = {}
  /\ rafId = 0
  /\ rafs = {}
  /\ updateQueue = {}
  /\ clipboard = [has |-> FALSE, nodes |-> <<>>, edges |-> <<>>]
  /\ previewPaths = 0
  /\ connectingPorts = {}
  /\ exported = [has |-> FALSE, doc |-> NullDocument]
  /\ objects = <<[label |-> "a"]>>
  /\ marks = <<>>
  /\ issued = {}
  /\ sinceReset = {}
  /\ createdInDrag = {}
  /\ lastCall = [op |-> "new", tag |-> "", a |-> 0, b |-> 0, ret |-> 0,
                 thrown |-> FALSE, emitted |-> <<>>, marked |-> <<>>,
                 pending |-> {}, dragged |-> NoDrag,
                 connecting |-> NoConnection, ctrl |-> FALSE]

\* new SwanEditor(container): every option at its default
Init == Constructed(DefaultGridSize)

\* the editor after a call, and the record of the call: the operation, a tag
\* and two ids among its arguments (for a pointer event: the kind of element
\* under the pointer, its node id and its port role; for a mouse move: the
\* pointer position), what it returned (0 = null / undefined /
\* false), whether it threw, the hooks and callbacks it invoked, and, for a
\* flush, the marks made since the flush before it and the pending set it
\* found, and, for a mouseup, the
\* drag session and the connection that were open when it arrived, and, for a
\* mousedown, whether ctrl or meta was held.  No handler of the editor
\* writes into a nested object.
ApplyWith(t, op, tag, a, b, ctrl) ==
  /\ nodes' = t.nodes
  /\ edges' = t.edges
  /\ selectedNodes' = t.selectedNodes
  /\ dragState' = t.dragState
  /\ connectionState' = t.connectionState
  /\ connectionCache' = t.connectionCache
  /\ dirtyNodes' = t.dirtyNodes
  /\ nodeIdCounter' = t.nodeIdCounter
  /\ edgeIdCounter' = t.edgeIdCounter
  /\ nodeTypes' = t.nodeTypes
  /\ batchUpdateTimer' = t.batchUpdateTimer
  /\ timers' = t.timers
  /\ rafId' = t.rafId
  /\ rafs' = t.rafs
  /\ updateQueue' = t.updateQueue
  /\ clipboard' = t.clipboard
  /\ previewPaths' = t.previewPaths
  /\ connectingPorts' = t.connectingPorts
  /\ gridSize' = gridSize
  /\ marks' = t.marks
  /\ issued' = t.issued
  /\ sinceReset' = t.sinceReset
  /\ createdInDrag' = t.createdInDrag
  /\ objects' = objects
  /\ lastCall' = [op |-> op, tag |-> tag, a |-> a, b |-> b, ret |-> t.ret,
                  thrown |-> t.thrown, emitted |-> t.emitted,
                  marked |-> IF op = "processDirtyNodes" THEN marks ELSE <<>>,
                  pending |-> IF op = "processDirtyNodes" THEN dirtyNodes
                              ELSE IF op = "processUpdateQueue" THEN updateQueue
                              ELSE {},
                  dragged |-> IF op = "mouseup" THEN dragState ELSE NoDrag,
                  connecting |-> IF op = "mouseup" THEN connectionState
                                 ELSE NoConnection,
                  ctrl |-> ctrl]

\* a call that is no pointer event
Apply(t, op, tag, a, b) == ApplyWith(t, op, tag, a, b, FALSE)

\* ------------------------------------------------------------------ actions
RegisterNodeType(type, ports) ==
  /\ Apply([This EXCEPT !.nodeTypes = CachePut(@, type, TypeConfig(ports))],
           "registerNodeType", type, 0, 0)
  /\ UNCHANGED exported

CreateNode(type, position, data, rnd) ==
  /\ nodeIdCounter <= MaxNodeId
  /\ Apply(createNode(This, type, position, data, rnd.x, rnd.y),
           "createNode", type, 0, 0)
  /\ UNCHANGED exported

\* options.style is given or not; options.data || {} is data
CreateEdge(sourceId, targetId, style, data) ==
  LET t == createEdge(This, sourceId, targetId, style, data)
  IN /\ t.edgeIdCounter <= MaxEdgeId + 1
     /\ Apply(t, "createEdge", "", sourceId, targetId)
     /\ UNCHANGED exported

DeleteEdge(edgeId) ==
  /\ Apply(deleteEdge(This, edgeId), "deleteEdge", "", edgeId, 0)
  /\ UNCHANGED exported

DeleteNode(nodeId) ==
  /\ Apply(deleteNode(This, nodeId), "deleteNode", "", nodeId, 0)
  /\ UNCHANGED exported

ValidateCache ==
  /\ Apply(validateCache(This), "validateCache", "", 0, 0)
  /\ UNCHANGED exported

\* the timeout armed by scheduleBatchUpdate fires
FireBatchTimer(id) ==
  /\ id \in timers
  /\ Apply(processDirtyNodes([This EXCEPT !.timers = @ \ {id}, !.marks = <<>>]),
           "processDirtyNodes", "", id, 0)
  /\ UNCHANGED exported

\* the animation frame requested by scheduleEdgeUpdate fires
FireAnimationFrame(id) ==
  /\ id \in rafs
  /\ Apply(processUpdateQueue([This EXCEPT !.rafs = @ \ {id}]),
           "processUpdateQueue", "", id, 0)
  /\ UNCHANGED exported

Clear ==
  /\ Apply(clear(This), "clear", "", 0, 0)
  /\ UNCHANGED exported

\* the host keeps what getWorkflowData / exportJSON returned
GetWorkflowData ==
  /\ exported' = [has |-> TRUE, doc |-> getWorkflowData(This)]
  /\ Apply(This, "getWorkflowData", "", 0, 0)

\* the random positions one load may draw: one point per node entry
RandomRuns(points, n) == [1..n -> points]

LoadWorkflowData(kind, doc, rnd) ==
  /\ Apply(loadWorkflowData(This, doc, rnd), "loadWorkflowData", kind, 0, 0)
  /\ UNCHANGED exported

ImportJSON(kind, json, rnd) ==
  /\ Apply(importJSON(This, json, rnd), "importJSON", kind, 0, 0)
  /\ UNCHANGED exported

\* the element under the pointer: a form control inside a node is no drag handle
Under(target) ==
  IF target.kind = "node" /\ target.interactive /\ ~target.handle
  THEN "control" ELSE target.kind

MouseDown(e) ==
  /\ ApplyWith(handleMouseDown(This, e), "mousedown", Under(e.target),
               e.target.nodeId, e.target.portType, e.ctrlKey)
  /\ UNCHANGED exported

MouseMove(e) ==
  /\ Apply(handleMouseMove(This, e), "mousemove", "", e.clientX, e.clientY)
  /\ UNCHANGED exported

MouseUp(e) ==
  /\ Apply(handleMouseUp(This, e), "mouseup", e.target.kind, e.target.nodeId,
           e.target.portType)
  /\ UNCHANGED exported

\* ------------------------------------------------------------------ inputs
\* type tags: 'default' is registered by the constructor, 'ghost' never is
TypeTags == {"default", "ghost"}

\* ids passed to the store: those the counters can have issued and one more
NodeIds == 1..(MaxNodeId + 1)
EdgeIds == 1..(MaxEdgeId + 1)

\* what Math.random() * 400 + 100 and Math.random() * 300 + 100 can yield
RandomPoints == {[x |-> 100, y |-> 100], [x |-> 499, y |-> 399]}

\* position arguments of createNode: none, or a point (0 being a coordinate)
PositionArgs == {[x |-> Absent, y |-> Absent], [x |-> Some(40), y |-> Some(40)],
                 [x |-> Some(0), y |-> Some(40)]}
FixedPosition == [x |-> Some(40), y |-> Some(40)]
FixedRandom == [x |-> 100, y |-> 100]

DataArgs == {<<>>, [title |-> "A"]}
StyleArgs == {<<>>, [color |-> "red"]}

\* ------------------------------------------------------------ the store
StoreCreateNode == \E type \in TypeTags : CreateNode(type, FixedPosition, <<>>, FixedRandom)
StoreCreateEdge == \E s \in NodeIds, d \in NodeIds : CreateEdge(s, d, <<>>, <<>>)
StoreDeleteEdge == \E e \in EdgeIds : DeleteEdge(e)
StoreDeleteNode == \E n \in NodeIds : DeleteNode(n)
StoreFlush == \E id \in timers : FireBatchTimer(id)
StoreFrame == \E id \in rafs : FireAnimationFrame(id)

\* the store alone: createNode, createEdge, deleteEdge, deleteNode, validateCache
Next ==
  \/ StoreCreateNode
  \/ StoreCreateEdge
  \/ StoreDeleteEdge
  \/ StoreDeleteNode
  \/ ValidateCache

Spec == Init /\ [][Next]_vars

\* ------------------------------------------------------------------ claims
LiveIds == KeySet(nodes)

\* the number of times a call invoked the hook or callback `name` on `id`
Count(emitted, name, id) ==
  Cardinality({i \in 1..Len(emitted) : emitted[i] = Note(name, id)})

\* C1: after any sequence of createNode, createEdge, deleteEdge and deleteNode
\* calls, with any type tags and ids, validateCache() returns 0
C1_ValidateCacheReturnsZero ==
  lastCall.op = "validateCache" => lastCall.ret = 0

\* C2: both endpoints of every stored edge are live nodes, and after
\* deleteNode(n) no stored edge has n as its source or target
C2_NoDanglingEdges ==
  /\ \A i \in 1..Len(edges) :
       edges[i].source \in LiveIds /\ edges[i].target \in LiveIds
  /\ lastCall.op = "deleteNode" =>
       \A i \in 1..Len(edges) :
         edges[i].source # lastCall.a /\ edges[i].target # lastCall.a

\* C3: createEdge(n, n) on a live node n returns null and leaves the edge
\* store and the adjacency cache unchanged
C3_SelfLoopRejected ==
  [][(lastCall'.op = "createEdge" /\ lastCall'.a = lastCall'.b
        /\ lastCall'.a \in LiveIds)
       => (lastCall'.ret = 0 /\ edges' = edges
             /\ connectionCache' = connectionCache)]_vars

\* C4: two consecutive createEdge(s, t) calls on live nodes s # t return the same
\* edge id, exactly one edge s->t is stored, and the second call changes
\* neither the edge store, the cache nor the edge id counter and emits no
\* onEdgeCreate
C4_DuplicateSuppressed ==
  [][(lastCall.op = "createEdge" /\ lastCall'.op = "createEdge"
        /\ lastCall'.a = lastCall.a /\ lastCall'.b = lastCall.b
        /\ lastCall.a # lastCall.b
        /\ lastCall.a \in LiveIds /\ lastCall.b \in LiveIds)
       => (/\ ~lastCall.thrown /\ ~lastCall'.thrown
           /\ lastCall.ret # 0 /\ lastCall'.ret = lastCall.ret
           /\ Cardinality({i \in 1..Len(edges') :
                edges'[i].source = lastCall.a /\ edges'[i].target = lastCall.b}) = 1
           /\ edges' = edges
           /\ connectionCache' = connectionCache
           /\ edgeIdCounter' = edgeIdCounter
           /\ \A i \in 1..Len(lastCall'.emitted) :
                lastCall'.emitted[i].name # "onEdgeCreate")]_vars

SchedCreateEdge ==
  \E s \in NodeIds, d \in NodeIds : s # d /\ CreateEdge(s, d, <<>>, <<>>)

NextSched ==
  \/ StoreCreateNode
  \/ SchedCreateEdge
  \/ StoreDeleteEdge
  \/ StoreDeleteNode
  \/ StoreFlush
  \/ Clear

SpecSched == Init /\ [][NextSched]_vars

\* C9 as stated: however often a node was marked dirty before the pending
\* timer fires, at most one timer is pending, and the flush it runs recomputes
\* the connection snapshot of every node marked since the flush before it
\* exactly once
C9_EveryMarkedNodeRecomputedOnce ==
  /\ Cardinality(timers) <= 1
  /\ lastCall.op = "processDirtyNodes" =>
       \A n \in DOMAIN lastCall.marked :
         Count(lastCall.emitted, "recompute", n) = 1

\* C9 amended: while marks are outstanding exactly one timer is pending, and
\* the flush it runs recomputes exactly once every node that is in the dirty
\* set and live when the timer fires, and no other node
C9_LiveDirtyNodeRecomputedOnce ==
  [][/\ Cardinality(timers') <= 1
     /\ DOMAIN marks' # {} => Cardinality(timers') = 1
     /\ lastCall'.op = "processDirtyNodes" =>
          \A n \in NodeIds :
            Count(lastCall'.emitted, "recompute", n) =
              IF n \in dirtyNodes /\ n \in LiveIds THEN 1 ELSE 0]_vars

\* a flush ran after a node had been marked more than once, and recomputed it
C9_Witness ==
  /\ lastCall.op = "processDirtyNodes"
  /\ \E n \in DOMAIN lastCall.marked :
       /\ lastCall.marked[n] >= 2
       /\ Count(lastCall.emitted, "recompute", n) = 1

\* ------------------------------------------------------------ node ids
\* createNode, deleteNode, clear(), and loading what getWorkflowData returned
IdsLoad ==
  /\ exported.has
  /\ \E rnd \in RandomRuns({FixedRandom}, Len(exported.doc.nodes.items)) :
       LoadWorkflowData("exported", exported.doc, rnd)

NextIds ==
  \/ StoreCreateNode
  \/ SchedCreateEdge
  \/ StoreDeleteNode
  \/ Clear
  \/ GetWorkflowData
  \/ IdsLoad

SpecIds == Init /\ [][NextIds]_vars

\* C10 as stated: createNode never returns an id it has returned before
C10_NodeIdNeverReturnedTwice ==
  [][lastCall'.op = "createNode" => lastCall'.ret \notin issued]_vars

\* C10 amended: createNode never returns the id of a stored node, and each id
\* it returns is greater than every id returned since clear() last reset the
\* counters (after a reset the ids start again at node-1)
C10_NodeIdFreshSinceReset ==
  [][lastCall'.op = "createNode" =>
       /\ lastCall'.ret \notin LiveIds
       /\ \A i \in sinceReset : lastCall'.ret > i]_vars

\* createNode returned node-1 again after a reset, with node-2 issued before it
C10_Witness ==
  /\ lastCall.op = "createNode"
  /\ lastCall.ret = 1
  /\ sinceReset = {1}
  /\ 2 \in issued

\* ------------------------------------------- pointer input, export, import
\* where the pointer grabs a node, relative to the node's corner
GrabOffsets == {5}
\* pointer positions of the mouse-move events: left of the canvas, on it
OffCanvasXs == {-20}
PointerXs == OffCanvasXs \cup {60}
PointerYs == {45}

\* mousedown on the body of a live node (an embedded control or not)
BodyDown ==
  \E n \in LiveIds, interactive \in BOOLEAN, grab \in GrabOffsets :
    MouseDown(MouseEvent(BodyTarget(n, interactive, FALSE),
                         RectLeft(Get(nodes, n)) + grab,
                         RectTop(Get(nodes, n)) + grab, FALSE))

\* mousedown on a port of a live node
PortDown ==
  /\ previewPaths < MaxPreviews
  /\ \E n \in LiveIds :
       \E role \in PortsOf(This, Get(nodes, n)) :
         MouseDown(MouseEvent(PortTarget(n, role), 0, 0, FALSE))

CanvasDown == MouseDown(MouseEvent(CanvasTarget, 0, 0, FALSE))

PointerMoveTo(xs) ==
  \E cx \in xs, cy \in PointerYs :
    MouseMove(MouseEvent(OtherTarget, cx, cy, FALSE))

PointerMove == PointerMoveTo(PointerXs)

PointerMoveOff == PointerMoveTo(OffCanvasXs)

\* mouseup over a port of a live node, or over anything else
PortUp ==
  \E n \in LiveIds :
    \E role \in PortsOf(This, Get(nodes, n)) :
      MouseUp(MouseEvent(PortTarget(n, role), 0, 0, FALSE))

OtherUp == MouseUp(MouseEvent(OtherTarget, 0, 0, FALSE))

\* createNode of the registered type at an explicit position
PlaceNode == CreateNode("default", FixedPosition, <<>>, FixedRandom)

\* the pointer alone: nodes placed by the host, every edge drawn by hand
NextPointer ==
  \/ PlaceNode
  \/ BodyDown
  \/ PortDown
  \/ CanvasDown
  \/ PointerMove
  \/ PortUp
  \/ OtherUp

SpecPointer == Init /\ [][NextPointer]_vars

IOCreateEdge ==
  \E s \in NodeIds, d \in NodeIds :
    s < d /\ CreateEdge(s, d, [color |-> "red"], <<>>)

\* JSON texts that are not a saved document
MalformedJson(kind) ==
  IF kind = "unparsable" THEN Unparsable
  ELSE IF kind = "null" THEN Json(NullDocument)
  ELSE IF kind = "nodes-not-a-list"
       THEN Json(Document(Field("number", <<>>), Field("absent", <<>>)))
  ELSE Json(Document(Field("list", <<NullEntry>>), Field("list", <<>>)))

MalformedKinds == {"unparsable", "null", "nodes-not-a-list", "null-entry"}

ImportMalformed ==
  \E kind \in MalformedKinds : ImportJSON(kind, MalformedJson(kind), <<>>)

\* importJSON of the text exportJSON returned
ImportExported ==
  /\ exported.has
  /\ \E rnd \in RandomRuns(RandomPoints, Len(exported.doc.nodes.items)) :
       ImportJSON("exported", Json(exported.doc), rnd)

\* a host that builds a graph, drags nodes, saves and loads documents
NextIO ==
  \/ PlaceNode
  \/ IOCreateEdge
  \/ BodyDown
  \/ PointerMoveOff
  \/ OtherUp
  \/ GetWorkflowData
  \/ ImportExported

SpecIO == Init /\ [][NextIO]_vars

\* a host that builds a graph, selects nodes and imports texts that are not
\* saved documents
NextImport ==
  \/ PlaceNode
  \/ IOCreateEdge
  \/ BodyDown
  \/ OtherUp
  \/ ImportMalformed

SpecImport == Init /\ [][NextImport]_vars

\* the node and edge content of two documents agrees, index by index, with
\* edges joining the nodes at the same indices (ids themselves may differ)
IndexOf(items, id) == CHOOSE i \in 1..Len(items) : items[i].id = id

SameGraph(a, b) ==
  /\ Len(a.nodes.items) = Len(b.nodes.items)
  /\ Len(a.edges.items) = Len(b.edges.items)
  /\ \A i \in 1..Len(a.nodes.items) :
       /\ a.nodes.items[i].type = b.nodes.items[i].type
       /\ a.nodes.items[i].x = b.nodes.items[i].x
       /\ a.nodes.items[i].y = b.nodes.items[i].y
       /\ a.nodes.items[i].data = b.nodes.items[i].data
  /\ \A i \in 1..Len(a.edges.items) :
       /\ a.edges.items[i].style = b.edges.items[i].style
       /\ a.edges.items[i].data = b.edges.items[i].data
       /\ IndexOf(a.nodes.items, a.edges.items[i].source)
            = IndexOf(b.nodes.items, b.edges.items[i].source)
       /\ IndexOf(a.nodes.items, a.edges.items[i].target)
            = IndexOf(b.nodes.items, b.edges.items[i].target)

\* C6: importing the exported document reproduces the exported nodes and
\* edges: the same counts, types, positions, data, styles and topology
C6_RoundTrip ==
  (lastCall.op = "importJSON" /\ lastCall.tag = "exported") =>
    /\ lastCall.ret = 1
    /\ SameGraph(getWorkflowData(This), exported.doc)

\* C7: importJSON of an unparsable or structurally incomplete text returns
\* false and leaves nodes, edges, selection and id counters as they were
C7_MalformedImportLeavesGraph ==
  [][(lastCall'.op = "importJSON" /\ lastCall'.tag \in MalformedKinds)
       => (/\ lastCall'.ret = 0
           /\ UNCHANGED <<nodes, edges, selectedNodes, nodeIdCounter,
                          edgeIdCounter>>)]_vars

\* C8: the drag session and the connection-in-progress never both exist
C8_OneInteractionAtATime ==
  ~(dragState.active /\ connectionState.active)

\* --------------------------------------------------------- drag sessions
\* every node of the drag session a mouseup ended is stored at the position
\* the session recorded for it at mousedown
EndedAtStart ==
  /\ lastCall.op = "mouseup"
  /\ lastCall.dragged.active
  /\ \A m \in lastCall.dragged.nodes :
       /\ Has(nodes, m)
       /\ m \in DOMAIN lastCall.dragged.startPositions
       /\ lastCall.dragged.startPositions[m].x = Get(nodes, m).x
       /\ lastCall.dragged.startPositions[m].y = Get(nodes, m).y

\* C11: a drag session whose nodes are at their recorded start positions at
\* mouseup emits no onNodeMove
C11_NoMoveNoNotification ==
  EndedAtStart =>
    /\ ~lastCall.thrown
    /\ \A i \in 1..Len(lastCall.emitted) : lastCall.emitted[i].name # "onNodeMove"

\* a mouseup ended a drag session of a node that an earlier session had moved,
\* after mouse moves that left the node where the session found it
C11_Witness ==
  /\ EndedAtStart
  /\ updateQueue # {}
  /\ \E m \in lastCall.dragged.nodes : Get(nodes, m).x # FixedPosition.x.v

\* ------------------------------------------------------------ destruction
\* cancelAnimationFrame(id): the frame callback with that id no longer fires
CancelAnimationFrame(pending, id) == pending \ {id}

\* destroy(): the pending frame is cancelled, the container and the maps are
\* emptied; the batch timer, the dirty set and the connection cache are not
\* touched
destroy(t) ==
  [t EXCEPT !.rafs = IF t.rafId # 0 THEN CancelAnimationFrame(@, t.rafId) ELSE @,
            !.previewPaths = 0, !.connectingPorts = {},
            !.nodes = <<>>, !.edges = <<>>, !.selectedNodes = {},
            !.nodeTypes = <<>>]

\* the editor was destroyed: the type registry, which the constructor fills
\* and nothing else empties, is empty
Destroyed == DOMAIN nodeTypes = {}

Destroy ==
  /\ ~Destroyed
  /\ Apply(destroy(This), "destroy", "", 0, 0)
  /\ UNCHANGED exported

\* a host that builds a graph and destroys the editor, with the batch timer
\* and the animation frame firing when they are due; the host makes no call
\* on a destroyed editor
LiveCreateNode == ~Destroyed /\ PlaceNode
LiveCreateEdge == ~Destroyed /\ SchedCreateEdge
LiveDeleteEdge == ~Destroyed /\ StoreDeleteEdge

NextDestroy ==
  \/ LiveCreateNode
  \/ LiveCreateEdge
  \/ LiveDeleteEdge
  \/ StoreFlush
  \/ StoreFrame
  \/ Destroy

SpecDestroy == Init /\ [][NextDestroy]_vars

\* C12: after destroy() no deferred callback is pending: neither the batch
\* flush timer nor the animation frame, so neither processDirtyNodes nor
\* processUpdateQueue runs on a destroyed editor
C12_DestroyCancelsDeferred ==
  Destroyed => (timers = {} /\ rafs = {})

\* ------------------------------------------------------ loading documents
\* ids the entries of a document carry: two that name its nodes and one that
\* names none of them
DocNodeIds == <<7, 9>>
DanglingId == 5

\* node lists of a document: none, one or two entries, of either type tag
DocNodes ==
  {<<>>}
    \cup {<<NodeEntry(DocNodeIds[1], ty, 40, 40, <<>>)>> : ty \in TypeTags}
    \cup {<<NodeEntry(DocNodeIds[1], ty1, 40, 40, <<>>),
            NodeEntry(DocNodeIds[2], ty2, 40, 40, <<>>)>> :
            ty1 \in TypeTags, ty2 \in TypeTags}

\* an entry of the edges list: {id, source, target, style, data}
EdgeEntry(id, source, target) ==
  [id |-> id, source |-> source, target |-> target, style |-> <<>>, data |-> <<>>]

\* the endpoints of the edge entries: both directions between the two node
\* ids, and one entry whose target names no node entry
DocEndpoints ==
  {<<DocNodeIds[1], DocNodeIds[2]>>, <<DocNodeIds[2], DocNodeIds[1]>>,
   <<DocNodeIds[1], DanglingId>>}

\* edge lists of a document: up to two entries, repeated endpoints included
DocEdges ==
  {<<>>}
    \cup {<<EdgeEntry(1, p[1], p[2])>> : p \in DocEndpoints}
    \cup {<<EdgeEntry(1, p[1], p[2]), EdgeEntry(2, q[1], q[2])>> :
            p \in DocEndpoints, q \in DocEndpoints}

\* loadWorkflowData(doc) of a document the host supplies
LoadDocument ==
  \E ns \in DocNodes, es \in DocEdges :
    /\ exported' = [has |-> TRUE, doc |-> Document(Field("list", ns), Field("list", es))]
    /\ Apply(loadWorkflowData(This, Document(Field("list", ns), Field("list", es)),
                              [i \in 1..Len(ns) |-> FixedRandom]),
             "loadWorkflowData", "given", 0, 0)

NextLoad ==
  \/ StoreCreateNode
  \/ IOCreateEdge
  \/ LoadDocument

SpecLoad == Init /\ [][NextLoad]_vars

\* the ids of the node entries of a document, and the position of the entry
\* that carries an id: the id the loaded node gets from the reset counter
EntryIds(doc) == {doc.nodes.items[i].id : i \in 1..Len(doc.nodes.items)}
EntryIndex(doc, id) == CHOOSE i \in 1..Len(doc.nodes.items) : doc.nodes.items[i].id = id

\* the edge entries of a document whose endpoints both name node entries
Resolved(doc) ==
  SelectSeq(doc.edges.items,
            LAMBDA e : e.source \in EntryIds(doc) /\ e.target \in EntryIds(doc))

\* C13: after loadWorkflowData(doc) the store holds one node per node entry,
\* in document order with fresh ids, and one edge per edge entry whose
\* endpoints both name node entries, joining the nodes loaded for them; the
\* other edge entries are dropped without an error
C13_LoadHoldsTheDocument ==
  (lastCall.op = "loadWorkflowData" /\ lastCall.tag = "given") =>
    /\ ~lastCall.thrown
    /\ Len(nodes) = Len(exported.doc.nodes.items)
    /\ \A i \in 1..Len(nodes) :
         nodes[i].id = i /\ nodes[i].type = exported.doc.nodes.items[i].type
    /\ Len(edges) = Len(Resolved(exported.doc))
    /\ \A i \in 1..Len(edges) :
         /\ edges[i].source = EntryIndex(exported.doc, Resolved(exported.doc)[i].source)
         /\ edges[i].target = EntryIndex(exported.doc, Resolved(exported.doc)[i].target)

\* -------------------------------------------------------- shared structure
\* a data value that is a nested object: a reference into the heap
Ref(address) == [ref |-> address]

\* the data a host passes: none, or one key holding a nested object
NestedData == {<<>>, [config |-> Ref(1)]}

ShareCreateNode ==
  \E data \in NestedData : CreateNode("default", FixedPosition, data, FixedRandom)
ShareCreateEdge ==
  \E data \in NestedData : CreateEdge(1, 2, [color |-> "red"], data)

\* everything the editor holds
editorVars == <<nodes, edges, selectedNodes, dragState, connectionState,
                connectionCache, dirtyNodes, nodeIdCounter, edgeIdCounter,
                nodeTypes, batchUpdateTimer, timers, rafId, rafs, updateQueue,
                clipboard, previewPaths, connectingPorts, gridSize, marks,
                issued, sinceReset, createdInDrag>>

\* the host writes into the document it was given, not through the editor
HostWrite(tag) ==
  [op |-> "host", tag |-> tag, a |-> 0, b |-> 0, ret |-> 0, thrown |-> FALSE,
   emitted |-> <<>>, marked |-> <<>>, pending |-> {}, dragged |-> NoDrag,
   connecting |-> NoConnection, ctrl |-> FALSE]

\* doc.nodes[i].position.x = 99; doc.nodes[i].data.title = "changed"
HostEditsNode ==
  /\ exported.has
  /\ \E i \in 1..Len(exported.doc.nodes.items) :
       /\ exported.doc.nodes.items[i].x # 99
       /\ exported' = [exported EXCEPT
                         !.doc.nodes.items[i].x = 99,
                         !.doc.nodes.items[i].data = Spread(@, [title |-> "changed"])]
  /\ lastCall' = HostWrite("node")
  /\ UNCHANGED <<editorVars, objects>>

\* doc.edges[i].style.color = "changed"; doc.edges[i].data.title = "changed"
HostEditsEdge ==
  /\ exported.has
  /\ \E i \in 1..Len(exported.doc.edges.items) :
       /\ exported.doc.edges.items[i].style.color # "changed"
       /\ exported' = [exported EXCEPT
                         !.doc.edges.items[i].style.color = "changed",
                         !.doc.edges.items[i].data = Spread(@, [title |-> "changed"])]
  /\ lastCall' = HostWrite("edge")
  /\ UNCHANGED <<editorVars, objects>>

\* the nested objects the entries of a list refer to
RefsOf(items) ==
  {items[i].data.config.ref :
     i \in {j \in 1..Len(items) : "config" \in DOMAIN items[j].data}}

\* doc.nodes[i].data.config.label = ..., doc.edges[i].data.config.label = ...
HostEditsNested ==
  /\ exported.has
  /\ \E r \in RefsOf(exported.doc.nodes.items) \cup RefsOf(exported.doc.edges.items) :
       objects' = [objects EXCEPT ![r].label = IF @ = "a" THEN "b" ELSE "a"]
  /\ lastCall' = HostWrite("nested")
  /\ UNCHANGED <<editorVars, exported>>

NextShare ==
  \/ ShareCreateNode
  \/ ShareCreateEdge
  \/ GetWorkflowData
  \/ HostEditsNode
  \/ HostEditsEdge
  \/ HostEditsNested

SpecShare == Init /\ [][NextShare]_vars

\* a data or style object with its nested objects read through the heap
Deep(d) == [k \in DOMAIN d |-> IF k = "config" THEN objects[d[k].ref] ELSE d[k]]

\* the position, data and style the stores hold, at every depth
Held ==
  [ns |-> [i \in 1..Len(nodes) |->
             [x |-> nodes[i].x, y |-> nodes[i].y, data |-> Deep(nodes[i].data)]],
   es |-> [i \in 1..Len(edges) |->
             [style |-> Deep(edges[i].style), data |-> Deep(edges[i].data)]]]

\* C14: no write of the host into the document getWorkflowData returned
\* (position, data, style, at any depth) changes the position, data or style
\* the node and edge stores hold
C14_ExportSharesNothing ==
  [][lastCall'.op = "host" => Held' = Held]_vars

\* ------------------------------------------------------------ unknown ids
\* `if (!node) return;`: a call that names no live node ends at once
ignoredThrows(t) == Throw(t)
ignored(t) == t

\* updateNodeData once the data is assigned: redraw, hook and callback
notifyUpdate(t, nodeId) ==
  Emit(Emit(scheduleEdgeUpdate(ElementRemoved(t, nodeId), nodeId),
            "onUpdate", nodeId),
       "onNodeUpdate", nodeId)

\* updateNodeData(nodeId, data)
updateNodeData(t, nodeId, data) ==
  IF ~Has(t.nodes, nodeId) THEN ignored(t)
  ELSE notifyUpdate(
         [t EXCEPT !.nodes = MapSet(@, [Get(t.nodes, nodeId) EXCEPT
                                          !.data = Spread(@, data)])],
         nodeId)

UpdateNodeData(nodeId, data) ==
  /\ Apply(updateNodeData(This, nodeId, data), "updateNodeData", "", nodeId, 0)
  /\ UNCHANGED exported

StoreUpdateNode == \E n \in NodeIds : UpdateNodeData(n, [title |-> "A"])

NextEdit ==
  \/ PlaceNode
  \/ StoreCreateEdge
  \/ StoreDeleteEdge
  \/ StoreDeleteNode
  \/ StoreUpdateNode
  \/ StoreFlush
  \/ StoreFrame

SpecEdit == Init /\ [][NextEdit]_vars

\* the step is a deleteNode, deleteEdge or updateNodeData whose id names no
\* live node / edge
UnknownTarget ==
  \/ lastCall'.op \in {"deleteNode", "updateNodeData"} /\ ~Has(nodes, lastCall'.a)
  \/ lastCall'.op = "deleteEdge" /\ ~Has(edges, lastCall'.a)

\* C15: deleteNode, deleteEdge and updateNodeData with an id that names no
\* live node / edge change neither the stores, the selection, the cache, the
\* dirty set nor the scheduled callbacks, and invoke no hook or callback
C15_UnknownIdIsNoOp ==
  [][UnknownTarget =>
       /\ lastCall'.emitted = <<>>
       /\ ~lastCall'.thrown
       /\ UNCHANGED <<nodes, edges, selectedNodes, connectionCache, dirtyNodes,
                      batchUpdateTimer, timers, rafId, rafs, updateQueue>>]_vars

\* a second deleteNode of an id, with another node, an edge-less cache entry
\* and a flush still pending
C15_Witness ==
  /\ lastCall.op = "deleteNode"
  /\ lastCall.a \in issued
  /\ ~Has(nodes, lastCall.a)
  /\ lastCall.emitted = <<>>
  /\ ~lastCall.thrown
  /\ nodes # <<>>
  /\ timers # {}

\* --------------------------------------------------------- connected nodes
\* getConnectedNodes(nodeId, direction)
getConnectedNodes(t, nodeId, direction) ==
  IF direction = "input"
  THEN [inputs |-> getConnectionDataCached(t, nodeId).inputs, outputs |-> <<>>]
  ELSE IF direction = "output"
  THEN [inputs |-> <<>>, outputs |-> getConnectionDataCached(t, nodeId).outputs]
  ELSE [inputs |-> getConnectionDataCached(t, nodeId).inputs,
        outputs |-> getConnectionDataCached(t, nodeId).outputs]

\* the directions a caller passes: none, the two that name a side, another word
Directions == {"", "input", "output", "both"}

\* the stored edges that arrive at (leave) a node, in edge-creation order, as
\* (node at the other end, edge id)
ScanInputs(nodeId) ==
  LET es == SelectSeq(edges, LAMBDA e : e.target = nodeId)
  IN [i \in 1..Len(es) |-> [id |-> es[i].source, edgeId |-> es[i].id]]
ScanOutputs(nodeId) ==
  LET es == SelectSeq(edges, LAMBDA e : e.source = nodeId)
  IN [i \in 1..Len(es) |-> [id |-> es[i].target, edgeId |-> es[i].id]]
Scan(nodeId, direction) ==
  [inputs |-> IF Has(nodes, nodeId) /\ direction # "output"
              THEN ScanInputs(nodeId) ELSE <<>>,
   outputs |-> IF Has(nodes, nodeId) /\ direction # "input"
               THEN ScanOutputs(nodeId) ELSE <<>>]

\* C16: in every state, for every node id and direction, getConnectedNodes
\* answers from the cache what a scan of the edge store gives: the stored
\* edges at that node in creation order, nothing for an id that names no
\* node, and one side only when a direction is named
C16_ConnectedNodesMatchEdgeStore ==
  \A n \in 1..(MaxNodeId + 1), direction \in Directions :
    getConnectedNodes(This, n, direction) = Scan(n, direction)

\* -------------------------------------------------------- drawing an edge
\* the host creates and deletes nodes while the pointer draws edges
NextConnect ==
  \/ StoreCreateNode
  \/ StoreDeleteNode
  \/ PortDown
  \/ PortUp
  \/ OtherUp

SpecConnect == Init /\ [][NextConnect]_vars

\* the step is a pointer-up that arrives in the connecting state
Release == lastCall'.op = "mouseup" /\ connectionState.active

\* the release target is a port of another node, of another role than the
\* port the gesture started on, and no edge joins the two nodes
ValidRelease ==
  /\ lastCall'.tag = "port"
  /\ lastCall'.a # connectionState.sourceNodeId
  /\ lastCall'.b # connectionState.sourcePortType
  /\ ~\E i \in 1..Len(edges) :
        {edges[i].source, edges[i].target} = {lastCall'.a, connectionState.sourceNodeId}

\* the step adds one edge, between the originating node and the release target
EdgeDrawn ==
  /\ Len(edges') = Len(edges) + 1
  /\ SubSeq(edges', 1, Len(edges)) = edges
  /\ {edges'[Len(edges')].source, edges'[Len(edges')].target}
       = {lastCall'.a, connectionState.sourceNodeId}

\* C17: a pointer-up in the connecting state creates an edge if and only if
\* it is released on a port of another node, of another role, with no edge
\* between the two nodes in either direction; every other release leaves the
\* node store, the edge store and the cache unchanged
C17_EdgeIffValidRelease ==
  [][Release =>
       IF ValidRelease THEN EdgeDrawn
       ELSE UNCHANGED <<nodes, edges, connectionCache>>]_vars

\* C17, amended: a pointer-up in the connecting state creates an edge if and
\* only if the originating node is still in the node store and the release
\* target is a port of another node, of another role, with no edge between
\* the two nodes in either direction; every other release leaves the node
\* store, the edge store and the cache unchanged
C17_EdgeIffValidReleaseFromLiveNode ==
  [][Release =>
       IF ValidRelease /\ Has(nodes, connectionState.sourceNodeId) THEN EdgeDrawn
       ELSE UNCHANGED <<nodes, edges, connectionCache>>]_vars

\* a release on a port that would be valid, after the originating node was
\* deleted during the gesture: nothing is created
C17_Witness ==
  /\ lastCall.op = "mouseup"
  /\ lastCall.connecting.active
  /\ lastCall.tag = "port"
  /\ lastCall.a # lastCall.connecting.sourceNodeId
  /\ lastCall.b # lastCall.connecting.sourcePortType
  /\ lastCall.connecting.sourceNodeId \in issued
  /\ ~Has(nodes, lastCall.connecting.sourceNodeId)
  /\ Has(nodes, lastCall.a)
  /\ edges = <<>>


\* ---------------------------------------------------------- port roles
\* registerNodeType('custom', {ports: ['input', 'aux']}): config.ports is kept
\* as given, and addNodePorts renders one port per entry
CustomPorts == {"input", "aux"}
RegisterCustom == RegisterNodeType("custom", CustomPorts)

\* createNode of a type the host has registered
CreateRegistered ==
  \E type \in DOMAIN nodeTypes : CreateNode(type, FixedPosition, <<>>, FixedRandom)

NextRoles ==
  \/ RegisterCustom
  \/ CreateRegistered
  \/ PortDown
  \/ PortUp
  \/ OtherUp

SpecRoles == Init /\ [][NextRoles]_vars

\* the role of the port of a node that the gesture connects: the port it
\* started on, or the port it is released on
ConnectedRole(nodeId) ==
  IF nodeId = connectionState.sourceNodeId THEN connectionState.sourcePortType
  ELSE lastCall'.b

\* C18: every edge a pointer connection commits runs from the node whose
\* connected port has role output to the node whose connected port has role
\* input, whichever port the gesture started on
C18_EdgeRunsOutputToInput ==
  [][(Release /\ Len(edges') = Len(edges) + 1) =>
       /\ ConnectedRole(edges'[Len(edges')].source) = "output"
       /\ ConnectedRole(edges'[Len(edges')].target) = "input"]_vars


\* -------------------------------------------------------- opposite edges
\* the step is createEdge(x, y) with x # y while y -> x is stored and x -> y
\* is not
OppositeStored ==
  /\ lastCall'.op = "createEdge"
  /\ lastCall'.a # lastCall'.b
  /\ \E i \in 1..Len(edges) :
       edges[i].source = lastCall'.b /\ edges[i].target = lastCall'.a
  /\ ~\E i \in 1..Len(edges) :
        edges[i].source = lastCall'.a /\ edges[i].target = lastCall'.b

\* C19: with a -> b stored, createEdge(b, a) returns an id no stored edge
\* has, and the store then holds both a -> b and b -> a
C19_OppositeEdgeIsCreated ==
  [][OppositeStored =>
       /\ ~lastCall'.thrown
       /\ lastCall'.ret # 0
       /\ \A i \in 1..Len(edges) : edges[i].id # lastCall'.ret
       /\ Len(edges') = Len(edges) + 1
       /\ SubSeq(edges', 1, Len(edges)) = edges
       /\ edges'[Len(edges')].id = lastCall'.ret
       /\ edges'[Len(edges')].source = lastCall'.a
       /\ edges'[Len(edges')].target = lastCall'.b]_vars


\* ------------------------------------------------------------ copy / paste
\* node ids a paste may use up
MaxPasted == 4

\* selectAll()
selectAll(t) == [t EXCEPT !.selectedNodes = @ \cup KeySet(t.nodes)]

\* the orders in which Array.from(this.selectedNodes) can list a selection
Orders(S) ==
  {o \in [1..Cardinality(S) -> S] : \A i, j \in 1..Cardinality(S) : o[i] = o[j] => i = j}

\* copySelected(), the selection listed in the given order; `from` is history:
\* the id of the node an entry was copied from
copySelected(t, order) ==
  IF \E i \in 1..Len(order) : ~Has(t.nodes, order[i]) THEN Throw(t)
  ELSE [t EXCEPT !.clipboard =
          [has |-> TRUE,
           nodes |-> [i \in 1..Len(order) |->
                        [from |-> order[i],
                         type |-> Get(t.nodes, order[i]).type,
                         data |-> Get(t.nodes, order[i]).data,
                         x |-> Get(t.nodes, order[i]).x,
                         y |-> Get(t.nodes, order[i]).y]],
           edges |-> SelectSeq(t.edges, LAMBDA e : /\ e.source \in t.selectedNodes
                                                    /\ e.target \in t.selectedNodes)]]

\* this.selectNode(newId, true) on the id createNode returned
selectCreated(t) == selectNode(t, t.ret, TRUE)

\* the body of the forEach of paste: one clipboard entry, offset by 50
pasteNode(t, nodeData) ==
  selectCreated(createNode(t, nodeData.type,
                           [x |-> Some(nodeData.x + 50), y |-> Some(nodeData.y + 50)],
                           nodeData.data, FixedRandom.x, FixedRandom.y))

RECURSIVE pasteNodes(_, _)
pasteNodes(t, entries) ==
  IF entries = <<>> THEN [t EXCEPT !.ret = 0]
  ELSE pasteNodes(pasteNode(t, Head(entries)), Tail(entries))

\* paste()
paste(t) ==
  IF ~t.clipboard.has \/ Len(t.clipboard.nodes) = 0 THEN t
  ELSE pasteNodes(clearSelection(t), t.clipboard.nodes)

SelectAll ==
  /\ Apply(selectAll(This), "selectAll", "", 0, 0)
  /\ UNCHANGED exported

CopySelected ==
  \E order \in Orders(selectedNodes) :
    /\ Apply(copySelected(This, order), "copySelected", "", 0, 0)
    /\ UNCHANGED exported

Paste ==
  /\ nodeIdCounter + Len(clipboard.nodes) <= MaxPasted + 1
  /\ Apply(paste(This), "paste", "", 0, 0)
  /\ UNCHANGED exported

NextClipboard ==
  \/ PlaceNode
  \/ IOCreateEdge
  \/ SelectAll
  \/ CopySelected
  \/ Paste

SpecClipboard == Init /\ [][NextClipboard]_vars

\* the step is a paste with a non-empty clipboard
Pasting == lastCall'.op = "paste" /\ clipboard.has /\ Len(clipboard.nodes) > 0

\* the node the step creates for the k-th clipboard entry, and the id of the
\* node it creates for the entry copied from a given node
Pasted(k) == nodes'[Len(nodes) + k]
CopyOf(id) ==
  Pasted(CHOOSE k \in 1..Len(clipboard.nodes) : clipboard.nodes[k].from = id).id

\* C20: paste after copySelected creates one node per copied node, with a
\* fresh id, the same type and data and the position offset by (+50, +50),
\* and one edge per copied edge, between the copies of its endpoints
C20_PasteRecreatesNodesAndEdges ==
  [][Pasting =>
       /\ Len(nodes') = Len(nodes) + Len(clipboard.nodes)
       /\ SubSeq(nodes', 1, Len(nodes)) = nodes
       /\ \A k \in 1..Len(clipboard.nodes) :
            /\ Pasted(k).id \notin issued
            /\ Pasted(k).type = clipboard.nodes[k].type
            /\ Pasted(k).data = clipboard.nodes[k].data
            /\ Pasted(k).x = clipboard.nodes[k].x + 50
            /\ Pasted(k).y = clipboard.nodes[k].y + 50
       /\ Len(edges') = Len(edges) + Len(clipboard.edges)
       /\ \A j \in 1..Len(clipboard.edges) :
            \E i \in (Len(edges) + 1)..Len(edges') :
              /\ edges'[i].source = CopyOf(clipboard.edges[j].source)
              /\ edges'[i].target = CopyOf(clipboard.edges[j].target)]_vars


\* ------------------------------------------------------ unregistered types
\* the editor as it would be if every type tag in use were registered with
\* the behaviour bundle of 'default'
AllRegistered ==
  [This EXCEPT !.nodeTypes = [tag \in TypeTags \cup DOMAIN nodeTypes |->
                                IF tag \in DOMAIN nodeTypes THEN nodeTypes[tag]
                                ELSE nodeTypes["default"]]]

\* the step ends without a fault, with the stores, the cache and the
\* notifications of the given outcome
SameOutcome(t) ==
  /\ ~lastCall'.thrown
  /\ nodes' = t.nodes
  /\ edges' = t.edges
  /\ connectionCache' = t.connectionCache
  /\ selectedNodes' = t.selectedNodes
  /\ lastCall'.emitted = t.emitted

\* C21: createEdge, deleteEdge and deleteNode end without a fault, and with
\* the store, the cache and the notifications they would have if every type
\* tag of the nodes involved were registered with the default bundle
C21_UnregisteredTypeUsesDefault ==
  [][/\ lastCall'.op = "createEdge" =>
          SameOutcome(createEdge(AllRegistered, lastCall'.a, lastCall'.b, <<>>, <<>>))
     /\ lastCall'.op = "deleteEdge" =>
          SameOutcome(deleteEdge(AllRegistered, lastCall'.a))
     /\ lastCall'.op = "deleteNode" =>
          SameOutcome(deleteNode(AllRegistered, lastCall'.a))]_vars


\* ------------------------------------------------- connection-change hook
\* registerNodeType('hooked', {ports: ['input', 'output'], onConnectionChange})
RegisterHooked ==
  /\ Apply(registerNodeType(This, "hooked",
                            [ports |-> {"input", "output"},
                             onConnectionChange |-> TRUE]),
           "registerNodeType", "hooked", 0, 0)
  /\ UNCHANGED exported

NextHook ==
  \/ RegisterHooked
  \/ CreateRegistered
  \/ SchedCreateEdge
  \/ StoreDeleteEdge
  \/ StoreFlush

SpecHook == Init /\ [][NextHook]_vars

\* C22: a batch flush invokes onConnectionChange exactly once for every
\* pending live node whose type was registered with that hook
C22_FlushInvokesConnectionChange ==
  [][lastCall'.op = "processDirtyNodes" =>
       \A n \in dirtyNodes :
         (Has(nodes, n) /\ Get(nodes, n).type = "hooked") =>
           Count(lastCall'.emitted, "onConnectionChange", n) = 1]_vars


\* --------------------------------------------------------- cache contents
\* the edge ids held in the cache sets of a node
CachedIds(n) ==
  SeqToSet(connectionCache[n].inputs) \cup SeqToSet(connectionCache[n].outputs)

\* C23: in every state, clear() and destroy() included, every edge id held in
\* a cache set is the id of a stored edge
C23_CachedIdsAreStored ==
  \A n \in DOMAIN connectionCache : \A id \in CachedIds(n) : Has(edges, id)


\* the nodes whose outgoing (incoming) cache set holds an edge id
OutgoingHolders(id) ==
  {n \in DOMAIN connectionCache : id \in SeqToSet(connectionCache[n].outputs)}
IncomingHolders(id) ==
  {n \in DOMAIN connectionCache : id \in SeqToSet(connectionCache[n].inputs)}

\* C24: the id of every stored edge is in the outgoing set of its source and
\* of no other node, in the incoming set of its target and of no other node,
\* and source and target are different nodes
C24_EdgeCachedAtItsTwoEnds ==
  \A i \in 1..Len(edges) :
    /\ OutgoingHolders(edges[i].id) = {edges[i].source}
    /\ IncomingHolders(edges[i].id) = {edges[i].target}
    /\ edges[i].source # edges[i].target


\* ------------------------------------------------------- cache validation
\* the stored edges between live nodes that arrive at (leave) a node
ArrivingAt(n) ==
  {i \in 1..Len(edges) : edges[i].target = n /\ Has(nodes, edges[i].source)}
LeavingFrom(n) ==
  {i \in 1..Len(edges) : edges[i].source = n /\ Has(nodes, edges[i].target)}

\* the live nodes without a cache entry, or whose cached sets differ in size
\* from the stored edges at the node
Miscached ==
  {n \in KeySet(nodes) :
     \/ ~CacheHas(connectionCache, n)
     \/ Len(connectionCache[n].inputs) # Cardinality(ArrivingAt(n))
     \/ Len(connectionCache[n].outputs) # Cardinality(LeavingFrom(n))}

\* the cache holds exactly the stored edges
CacheExact ==
  /\ \A i \in 1..Len(edges) :
       /\ CacheHas(connectionCache, edges[i].source)
       /\ CacheHas(connectionCache, edges[i].target)
       /\ edges[i].id \in SeqToSet(connectionCache[edges[i].source].outputs)
       /\ edges[i].id \in SeqToSet(connectionCache[edges[i].target].inputs)
  /\ \A n \in DOMAIN connectionCache : \A id \in CachedIds(n) : Has(edges, id)

\* C25: validateCache() returns the number of live nodes whose cached sets
\* differ in size from the stored edges (or that have no entry), leaves the
\* cache alone when that number is zero, and after it returns the cache holds
\* exactly the stored edges
C25_ValidateCacheRepairs ==
  [][lastCall'.op = "validateCache" =>
       /\ lastCall'.ret = Cardinality(Miscached)
       /\ lastCall'.ret = 0 => UNCHANGED connectionCache
       /\ lastCall'.ret # 0 => DOMAIN connectionCache' = KeySet(nodes)
       /\ CacheExact']_vars

\* the editor is used, destroyed, and its cache validated
NextValidate ==
  \/ LiveCreateNode
  \/ LiveCreateEdge
  \/ LiveDeleteEdge
  \/ Destroy
  \/ ValidateCache

SpecValidate == Init /\ [][NextValidate]_vars


\* ------------------------------------------------------ after the flush
\* C26: after every firing of the batch flush timer the pending dirty set is
\* empty and batchUpdateTimer is null, whatever happened to the dirty nodes
\* between the marking and the firing
C26_FlushLeavesNothingPending ==
  [][lastCall'.op = "processDirtyNodes" =>
       dirtyNodes' = {} /\ batchUpdateTimer' = 0]_vars


\* ------------------------------------------- flushes that find stale ids
\* the nodes as stored, without the connection snapshot the batch flush
\* itself computes for them
Attributes(ns) ==
  [i \in 1..Len(ns) |->
     [ns[i] EXCEPT !.conn = [has |-> FALSE, inputs |-> <<>>, outputs |-> <<>>]]]

\* the step is a flush whose pending set names a node that is no longer stored
StaleFlush(op) ==
  /\ lastCall'.op = op
  /\ lastCall'.pending \ KeySet(nodes) # {}

GraphKept ==
  /\ Attributes(nodes') = Attributes(nodes)
  /\ edges' = edges
  /\ connectionCache' = connectionCache

\* C27: a batch flush or an edge-geometry flush whose pending set holds the id
\* of a node deleted after it was queued completes without fault, processes
\* every other pending id (the batch flush recomputes each live pending node
\* once and queues its edges; either flush leaves its pending set empty), and
\* changes neither the node store, the edge store nor the adjacency cache
C27_StaleFlushIsHarmless ==
  [][/\ StaleFlush("processDirtyNodes") =>
          /\ ~lastCall'.thrown
          /\ \A n \in lastCall'.pending \cap KeySet(nodes) :
               /\ Count(lastCall'.emitted, "recompute", n) = 1
               /\ n \in updateQueue'
          /\ dirtyNodes' = {}
          /\ GraphKept
     /\ StaleFlush("processUpdateQueue") =>
          /\ ~lastCall'.thrown
          /\ updateQueue' = {}
          /\ GraphKept]_vars

\* a batch flush found a deleted node in its pending set
C27_Witness ==
  /\ lastCall.op = "processDirtyNodes"
  /\ lastCall.pending \ KeySet(nodes) # {}
  /\ ~lastCall.thrown

\* an edge-geometry flush found a deleted node and a live one in its queue
C27_FrameWitness ==
  /\ lastCall.op = "processUpdateQueue"
  /\ lastCall.pending \ KeySet(nodes) # {}
  /\ lastCall.pending \cap KeySet(nodes) # {}

\* a host that builds a graph, deletes nodes and destroys the editor while
\* flushes are pending
LiveDeleteNode == ~Destroyed /\ StoreDeleteNode

NextStale ==
  \/ LiveCreateNode
  \/ LiveCreateEdge
  \/ LiveDeleteNode
  \/ StoreFlush
  \/ StoreFrame
  \/ Destroy

SpecStale == Init /\ [][NextStale]_vars


\* ------------------------------------------------------------ drag-start
\* mousedown on the handle of a live node with ctrl or meta held
CtrlDown ==
  \E n \in LiveIds, grab \in GrabOffsets :
    MouseDown(MouseEvent(BodyTarget(n, FALSE, TRUE),
                         RectLeft(Get(nodes, n)) + grab,
                         RectTop(Get(nodes, n)) + grab, TRUE))

\* nodes placed and deleted by the host, pressed and released with and
\* without ctrl
NextSelect ==
  \/ PlaceNode
  \/ StoreDeleteNode
  \/ BodyDown
  \/ CtrlDown
  \/ CanvasDown
  \/ OtherUp

SpecSelect == Init /\ [][NextSelect]_vars

\* the step is a mousedown on live node p that reaches startDrag
DragStartOn(p) ==
  /\ lastCall'.op = "mousedown"
  /\ lastCall'.tag = "node"
  /\ lastCall'.a = p

\* C28 as stated: at drag-start on p, if p is selected the drag members are
\* the selected nodes and the selection is unchanged; otherwise the selection
\* and the drag members are both exactly {p}, whatever modifier key is held
C28_DragStartSelectsAlone ==
  [][\A p \in LiveIds :
       DragStartOn(p) =>
         IF p \in selectedNodes
         THEN dragState'.nodes = selectedNodes /\ selectedNodes' = selectedNodes
         ELSE selectedNodes' = {p} /\ dragState'.nodes = {p}]_vars

\* C28 amended: at drag-start on p, if p is selected the drag members are the
\* selected nodes and the selection is unchanged; otherwise the drag members
\* are exactly {p}, and the selection is exactly {p} when neither ctrl nor
\* meta is held and the selection before plus p when one is held
C28_DragStartSelection ==
  [][\A p \in LiveIds :
       DragStartOn(p) =>
         /\ dragState'.active /\ dragState'.primary = p
         /\ IF p \in selectedNodes
            THEN dragState'.nodes = selectedNodes /\ selectedNodes' = selectedNodes
            ELSE /\ dragState'.nodes = {p}
                 /\ selectedNodes' = IF lastCall'.ctrl THEN selectedNodes \cup {p}
                                     ELSE {p}]_vars

\* a drag started with ctrl held on an unselected node while another node was
\* selected: the two are selected, the pressed one alone is dragged
C28_Witness ==
  /\ lastCall.op = "mousedown" /\ lastCall.tag = "node" /\ lastCall.ctrl
  /\ dragState.active
  /\ dragState.nodes = {lastCall.a}
  /\ Cardinality(selectedNodes) = 2
  /\ Count(lastCall.emitted, "onNodeSelect", lastCall.a) = 1


\* ------------------------------------------------------ preview and marker
\* C29: in every reachable state with no connection in progress, no preview
\* path remains in the canvas and no port carries the connecting marker
C29_NothingLeftOfAConnection ==
  ~connectionState.active => previewPaths = 0 /\ connectingPorts = {}


\* -------------------------------------------------------- deleting a node
\* the stored edges that touch node n, in store order
Incident(n) == SelectSeq(edges, LAMBDA e : e.source = n \/ e.target = n)

\* what deleteNode(n) is to invoke, in order: for each incident edge the
\* onDisconnect hook of its source and of its target and the onEdgeDelete
\* callback, and after all of them onDelete and onNodeDelete of n
DeleteNotes(n) ==
  [k \in 1..(3 * Len(Incident(n)) + 2) |->
     IF k = 3 * Len(Incident(n)) + 1 THEN Note("onDelete", n)
     ELSE IF k = 3 * Len(Incident(n)) + 2 THEN Note("onNodeDelete", n)
     ELSE IF k % 3 = 1 THEN Note("onDisconnect", Incident(n)[(k + 2) \div 3].source)
     ELSE IF k % 3 = 2 THEN Note("onDisconnect", Incident(n)[(k + 2) \div 3].target)
     ELSE Note("onEdgeDelete", Incident(n)[(k + 2) \div 3].id)]

\* C30: deleteNode(n) on a live node deletes every edge incident to n, each
\* with onDisconnect to both endpoints and one onEdgeDelete, all of them
\* before onDelete / onNodeDelete of n; afterwards n and its edges are
\* stored no more and n is in neither the selection, the cache nor the
\* dirty set
C30_DeleteNodeCascades ==
  [][\A n \in LiveIds :
       (lastCall'.op = "deleteNode" /\ lastCall'.a = n) =>
         /\ ~lastCall'.thrown
         /\ lastCall'.emitted = DeleteNotes(n)
         /\ edges' = SelectSeq(edges, LAMBDA e : e.source # n /\ e.target # n)
         /\ ~Has(nodes', n)
         /\ n \notin selectedNodes'
         /\ ~CacheHas(connectionCache', n)
         /\ n \notin dirtyNodes']_vars

\* a node with an incident edge was deleted
C30_Witness ==
  /\ lastCall.op = "deleteNode"
  /\ Count(lastCall.emitted, "onNodeDelete", lastCall.a) = 1
  /\ \E i \in 1..Len(lastCall.emitted) : lastCall.emitted[i].name = "onEdgeDelete"


\* ------------------------------------------------------ updating node data
\* C31: updateNodeData(n, d) on a live node merges the fields of d into the
\* data of n and marks n dirty for the batched re-render: after the call n is
\* in the pending dirty set and a batch flush timer is armed
C31_UpdateMarksDirty ==
  [][\A n \in LiveIds :
       (lastCall'.op = "updateNodeData" /\ lastCall'.a = n) =>
         /\ Get(nodes', n).data = Spread(Get(nodes, n).data, [title |-> "A"])
         /\ n \in dirtyNodes'
         /\ batchUpdateTimer' # 0
         /\ batchUpdateTimer' \in timers']_vars


\* ------------------------------------------------------- the end of a drag
\* the largest coordinate a node may have when a mouse move is offered
MaxCoordinate == 120

\* a mouse move while every node is within MaxCoordinate
BoundedMove ==
  /\ \A i \in 1..Len(nodes) : nodes[i].x <= MaxCoordinate /\ nodes[i].y <= MaxCoordinate
  /\ PointerMove

\* nodes placed and deleted by the host while the user drags one node or,
\* with ctrl, several
NextDrag ==
  \/ PlaceNode
  \/ StoreDeleteNode
  \/ BodyDown
  \/ CtrlDown
  \/ BoundedMove
  \/ OtherUp

SpecDrag == Init /\ [][NextDrag]_vars

\* the members of the open drag session that are stored and are not where the
\* session recorded them at its start
MovedMembers ==
  {n \in dragState.nodes :
     /\ Has(nodes, n)
     /\ n \in DOMAIN dragState.startPositions
     /\ \/ dragState.startPositions[n].x # Get(nodes, n).x
        \/ dragState.startPositions[n].y # Get(nodes, n).y}

\* C32: at the mouseup that ends a drag, onNodeMove is emitted exactly once
\* for each dragged live node whose position differs from its recorded start
\* position and for no other node, and dragState is null afterwards
C32_MouseUpReportsMoves ==
  [][(lastCall'.op = "mouseup" /\ dragState.active) =>
       /\ ~lastCall'.thrown
       /\ dragState' = NoDrag
       /\ \A n \in MovedMembers : Count(lastCall'.emitted, "onNodeMove", n) = 1
       /\ \A i \in 1..Len(lastCall'.emitted) :
            lastCall'.emitted[i].name = "onNodeMove" =>
              lastCall'.emitted[i].id \in MovedMembers]_vars

\* a mouseup ended a drag of two nodes, of which one had moved and was
\* reported and the other had been deleted
C32_Witness ==
  /\ lastCall.op = "mouseup"
  /\ Cardinality(lastCall.dragged.nodes) = 2
  /\ \E n \in lastCall.dragged.nodes : ~Has(nodes, n)
  /\ \E n \in lastCall.dragged.nodes : Count(lastCall.emitted, "onNodeMove", n) = 1
  /\ dragState = NoDrag


\* ------------------------------------------------------------ drag moves
\* the grid steps an editor may be constructed with: none, and 10 px
GridSizes == {DefaultGridSize, 10}

InitSnap == \E g \in GridSizes : Constructed(g)

SpecSnap == InitSnap /\ [][NextDrag]_vars

Distance(a, b) == IF a >= b THEN a - b ELSE b - a

\* x is v snapped and clamped: with a grid, the larger of 0 and a multiple of
\* gridSize nearest to v; without one, the larger of 0 and v
SnappedAndClamped(x, v) ==
  IF gridSize > 1
  THEN \E m \in (v - gridSize)..(v + gridSize) :
         /\ m % gridSize = 0
         /\ 2 * Distance(m, v) <= gridSize
         /\ x = Max(0, m)
  ELSE x = Max(0, v)

\* C33: after every mouse move of a drag, each dragged live node is at
\* max(0, snap(start position + pointer delta)) in x and in y, the delta being
\* that of the pointer from where the session took the primary node; so both
\* coordinates are non-negative and the position depends only on the start
\* position and the current pointer
C33_DragPositionClamped ==
  [][(lastCall'.op = "mousemove" /\ dragState.active) =>
       /\ ~lastCall'.thrown
       /\ \A n \in dragState.nodes :
            Has(nodes, n) =>
              /\ n \in DOMAIN dragState.startPositions
              /\ SnappedAndClamped(
                   Get(nodes', n).x,
                   dragState.startPositions[n].x + lastCall'.a - dragState.offsetX
                     - dragState.startPositions[dragState.primary].x)
              /\ SnappedAndClamped(
                   Get(nodes', n).y,
                   dragState.startPositions[n].y + lastCall'.b - dragState.offsetY
                     - dragState.startPositions[dragState.primary].y)
              /\ Get(nodes', n).x >= 0 /\ Get(nodes', n).y >= 0]_vars

\* with a grid of 10, a move that asks for x = 55 put the dragged node on a
\* grid line next to it
C33_Witness ==
  /\ gridSize = 10
  /\ lastCall.op = "mousemove"
  /\ dragState.active
  /\ Has(nodes, dragState.primary)
  /\ lastCall.a - dragState.offsetX = 55
  /\ Get(nodes, dragState.primary).x \in {50, 60}


\* ------------------------------------------------------------ the selection
\* the tail of deleteSelected: this.clearSelection()
deselect(t) == IF t.thrown THEN t ELSE clearSelection(t)

\* deleteSelected(); Array.from(this.selectedNodes) is in insertion order,
\* which is one of the orders of the set
deleteSelected(t, order) == deselect(deleteNodes(t, order))

SelectNode ==
  \E n \in NodeIds, multi \in BOOLEAN :
    /\ Apply(selectNode(This, n, multi), "selectNode", "", n, 0)
    /\ UNCHANGED exported

ClearSelection ==
  /\ Apply(clearSelection(This), "clearSelection", "", 0, 0)
  /\ UNCHANGED exported

DeleteSelected ==
  \E order \in Orders(selectedNodes) :
    /\ Apply(deleteSelected(This, order), "deleteSelected", "", 0, 0)
    /\ UNCHANGED exported

\* a document of two nodes and the edge between them
PairDocument ==
  Document(Field("list", <<NodeEntry(DocNodeIds[1], "default", 40, 40, <<>>),
                           NodeEntry(DocNodeIds[2], "default", 40, 40, <<>>)>>),
           Field("list", <<EdgeEntry(1, DocNodeIds[1], DocNodeIds[2])>>))

LoadPair ==
  /\ exported' = [has |-> TRUE, doc |-> PairDocument]
  /\ Apply(loadWorkflowData(This, PairDocument, <<FixedRandom, FixedRandom>>),
           "loadWorkflowData", "given", 0, 0)

\* copySelected() of a selection of at most one node
CopyOne == Cardinality(selectedNodes) <= 1 /\ CopySelected

\* paste() of nodes copied from within MaxCoordinate, while createNode is
\* offered
PasteNear ==
  /\ nodeIdCounter <= MaxNodeId
  /\ \A k \in 1..Len(clipboard.nodes) : clipboard.nodes[k].x <= MaxCoordinate
  /\ Paste

\* a host and a user who select, delete, copy, paste, clear and load nodes
NextSelection ==
  \/ PlaceNode
  \/ SelectNode
  \/ SelectAll
  \/ ClearSelection
  \/ StoreDeleteNode
  \/ DeleteSelected
  \/ CopyOne
  \/ PasteNear
  \/ Clear
  \/ LoadPair
  \/ CtrlDown

SpecSelection == Init /\ [][NextSelection]_vars

\* C34: in every reachable state the selected ids are ids of stored nodes
C34_SelectionIsLive == selectedNodes \subseteq KeySet(nodes)

\* deleteSelected deleted a selected node and left another node stored
C34_Witness ==
  /\ lastCall.op = "deleteSelected"
  /\ \E i \in 1..Len(lastCall.emitted) : lastCall.emitted[i].name = "onNodeDelete"
  /\ Len(nodes) >= 1


\* ------------------------------------------------- connection snapshots
\* the (neighbour id, edge id) pairs of the stored edges that arrive at node n
\* and of those that leave it
StoredInputs(n) ==
  {[id |-> edges[i].source, edgeId |-> edges[i].id] :
     i \in {j \in 1..Len(edges) : edges[j].target = n}}
StoredOutputs(n) ==
  {[id |-> edges[i].target, edgeId |-> edges[i].id] :
     i \in {j \in 1..Len(edges) : edges[j].source = n}}

\* C35: whenever the pending dirty set is empty, every stored node that has a
\* connection snapshot has one that lists exactly its current neighbours: the
\* (neighbour id, edge id) pairs of its inputs and outputs are those of the
\* stored edges incident to it
C35_SnapshotsAreCurrent ==
  dirtyNodes = {} =>
    \A i \in 1..Len(nodes) :
      nodes[i].conn.has =>
        /\ SeqToSet(nodes[i].conn.inputs) = StoredInputs(nodes[i].id)
        /\ SeqToSet(nodes[i].conn.outputs) = StoredOutputs(nodes[i].id)


\* ------------------------------------------------- deferred work pending
\* while the dirty set is non-empty exactly one flush timer is pending, and
\* while the edge-geometry queue is non-empty exactly one animation-frame
\* callback is pending
DeferredWorkIsScheduled ==
  /\ dirtyNodes # {} => Cardinality(timers) = 1
  /\ updateQueue # {} => Cardinality(rafs) = 1


\* the browser runs a pending timeout and a requested animation frame: a
\* flush or a frame that stays pending is eventually run.  FlushFairness is
\* WF_vars(StoreFlush) with its enabling condition written out: a flush can
\* run exactly when a timer is pending, and running it takes the timer out of
\* timers.  A mutation re-arms the timer and leaves a flush pending, so the
\* condition covers the behaviours in which the mutations stop.
FlushFairness == []<>(timers = {}) \/ []<><<StoreFlush>>_vars

SpecFair ==
  /\ Init /\ [][NextStale]_vars
  /\ FlushFairness /\ WF_vars(StoreFrame)

\* C36: pending deferred work is never stranded: whenever the dirty set is
\* non-empty exactly one flush timer is pending, whenever the edge-geometry
\* queue is non-empty exactly one animation-frame callback is pending, and
\* under fair firing of timers and frames a non-empty dirty set and a
\* non-empty geometry queue eventually become empty
C36_DeferredWorkNeverStranded ==
  /\ []DeferredWorkIsScheduled
  /\ dirtyNodes # {} ~> dirtyNodes = {}
  /\ updateQueue # {} ~> updateQueue = {}

\* C36, for an editor that has not been destroyed: until destroy() the dirty
\* set is non-empty only with exactly one flush timer pending and the
\* geometry queue only with exactly one frame pending, and under fair firing
\* a non-empty dirty set or queue is eventually emptied unless the editor is
\* destroyed first (destroy() cancels the frame and leaves the queue as it is)
C36_NeverStrandedUntilDestroyed ==
  /\ [](~Destroyed => DeferredWorkIsScheduled)
  /\ dirtyNodes # {} ~> (dirtyNodes = {} \/ Destroyed)
  /\ updateQueue # {} ~> (updateQueue = {} \/ Destroyed)

\* a frame has just drained a non-empty geometry queue of a live editor whose
\* dirty set was flushed before
C36_Witness ==
  /\ lastCall.op = "processUpdateQueue"
  /\ lastCall.pending # {}
  /\ ~Destroyed
  /\ updateQueue = {} /\ dirtyNodes = {}
  /\ rafs = {} /\ timers = {}


\* -------------------------------------------------- returned ids are new
\* C37: the id returned by createNode is the id of no node that is in the
\* store when the call is made, and the id returned by a createEdge that
\* succeeds is the id of no edge that is in the store when the call is made,
\* clear() and loadWorkflowData() (which reset the id counters) included
C37_ReturnedIdIsNotStored ==
  [][/\ (lastCall'.op = "createNode" /\ ~lastCall'.thrown) =>
          lastCall'.ret \notin KeySet(nodes)
     /\ (lastCall'.op = "createEdge" /\ ~lastCall'.thrown /\ lastCall'.ret # 0) =>
          lastCall'.ret \notin KeySet(edges)]_vars


\* C37 for the ids the editor makes: the id createNode returns, and the id
\* createEdge returns for an edge it has stored (a createEdge between two nodes
\* that are already connected in that direction stores nothing and returns
\* the id of the stored edge), is the id of nothing in the store when the call
\* is made
C37_NewIdIsNotStored ==
  [][/\ (lastCall'.op = "createNode" /\ ~lastCall'.thrown) =>
          lastCall'.ret \notin KeySet(nodes)
     /\ (lastCall'.op = "createEdge" /\ ~lastCall'.thrown
           /\ edgeIdCounter' # edgeIdCounter) =>
          lastCall'.ret \notin KeySet(edges)]_vars


\* createEdge has stored and returned edge-1 after getWorkflowData had
\* exported a graph with an edge in it: the counters were reset in between
C37_Witness ==
  /\ lastCall.op = "createEdge"
  /\ ~lastCall.thrown
  /\ lastCall.ret = 1
  /\ lastCall.emitted # <<>>
  /\ Has(edges, 1)
  /\ exported.has
  /\ exported.doc.edges.items # <<>>


\* ------------------------------------------- the store and its callbacks
\* the number of times a call invoked the callback `name`
Announced(emitted, name) ==
  Cardinality({i \in 1..Len(emitted) : emitted[i].name = name})

\* C38: the onEdgeCreate notifications less the onEdgeDelete notifications
\* number the stored edges, and the onNodeCreate notifications less the
\* onNodeDelete notifications number the stored nodes: the editor starts with
\* empty stores, and every call changes the size of each store by the
\* notifications it sends (an edge removed by a node deletion, by clear() or
\* by destroy() is announced like any other)
C38_StoreChangesAreAnnounced ==
  [][/\ Len(edges') - Len(edges) =
          Announced(lastCall'.emitted, "onEdgeCreate")
            - Announced(lastCall'.emitted, "onEdgeDelete")
     /\ Len(nodes') - Len(nodes) =
          Announced(lastCall'.emitted, "onNodeCreate")
            - Announced(lastCall'.emitted, "onNodeDelete")]_vars


\* ------------------------------------------------- who a drag session moves
\* a drag with the graph changing under it: nodes placed and deleted, and
\* clear() resetting the id counter, while the session is open
NextLate ==
  \/ PlaceNode
  \/ StoreDeleteNode
  \/ Clear
  \/ BodyDown
  \/ BoundedMove
  \/ OtherUp

SpecLate == Init /\ [][NextLate]_vars

\* the live nodes a call has moved
Repositioned(before, after) ==
  {n \in KeySet(before) \cap KeySet(after) :
     Get(before, n).x # Get(after, n).x \/ Get(before, n).y # Get(after, n).y}

\* the nodes that were members of the open session when it began and have
\* been in the store since
StandingMembers == (dragState.nodes \cap KeySet(nodes)) \ createdInDrag

\* C39: a pointer-move of an open drag session changes the position only of
\* nodes that were members of the session at drag-start, never that of a node
\* created after drag-start, and a member deleted mid-session produces neither
\* a fault (in the pointer-move or the pointer-up) nor a move notification
C39_DragMovesOnlyItsMembers ==
  [][/\ (lastCall'.op = "mousemove" /\ dragState.active) =>
          /\ ~lastCall'.thrown
          /\ Repositioned(nodes, nodes') \subseteq StandingMembers
     /\ (lastCall'.op = "mouseup" /\ dragState.active) =>
          /\ ~lastCall'.thrown
          /\ \A n \in NodeIds :
               Count(lastCall'.emitted, "onNodeMove", n) > 0 =>
                 n \in StandingMembers]_vars


\* ---------------------------------------------------- idle after pointer-up
\* C40: after every pointer-up both the drag session and the connection in
\* progress are null, whatever the state the event arrived in and whatever
\* happened to the graph between pointer-down and pointer-up
C40_IdleAfterPointerUp ==
  [][lastCall'.op = "mouseup" =>
       /\ dragState' = NoDrag
       /\ connectionState' = NoConnection]_vars

=============================================================================
